---- MODULE Spec2Model ----
(***************************************************************************)
(* Nearest plate boundary resolution (functions/spatial_analysis.py) and   *)
(* the zone assignment feeding it (functions/data_processing.py).          *)
(*                                                                         *)
(* Tables are sequences of records (one record per row, in row order); the *)
(* row index label is the field "label" (earthquakes) or "idx" (plates).   *)
(* Earthquake index labels are distinct (the pipeline builds the table     *)
(* with ignore_index=True, data_fetching.py:207) but are neither           *)
(* consecutive nor in row order.                                           *)
(*                                                                         *)
(* Coordinates are integers.  Geographic coordinates are whole degrees;    *)
(* projected coordinates are metres.  A plate geometry is a                *)
(* (Multi)LineString whose parts run along a meridian or a parallel, so    *)
(* that bounding boxes and distances are computed exactly.                 *)
(***************************************************************************)
EXTENDS Integers, Sequences, FiniteSets, TLC

\* Every table cell is a record tagged by its field k, so that a missing value
\* compares with any other value.
\* np.nan / pd.NA / None
Null == [k |-> "null"]
\* a float or int cell
Num(v) == [k |-> "num", v |-> v]
\* a text cell
Str(s) == [k |-> "str", v |-> s]
isna(c) == c = Null
notna(c) == c # Null

-----------------------------------------------------------------------------
\* Bounds of the model

\* rows of the earthquake table
MaxRows == 2
\* largest max_workers argument tried (0 is tried too)
MaxWorkers == 2

-----------------------------------------------------------------------------
\* Module constants of spatial_analysis.py

DEFAULT_CRS == [k |-> "crs", code |-> 4326]
OUTPUT_COLS == <<"distance_to_plate", "nearest_plate_strnum", "nearest_plate_platecode",
                 "nearest_plate_geogdesc", "nearest_plate_boundary_t">>
buffer_dist == 1000000

-----------------------------------------------------------------------------
\* Small arithmetic helpers

Abs(a) == IF a < 0 THEN -a ELSE a
Min2(a, b) == IF a <= b THEN a ELSE b
Max2(a, b) == IF a >= b THEN a ELSE b
SetMin(S) == CHOOSE m \in S : \A o \in S : m <= o
SetMax(S) == CHOOSE m \in S : \A o \in S : m >= o
Range(s) == {s[i] : i \in 1..Len(s)}

\* floor of the square root of n, by bisection of lo..hi (lo * lo <= n < hi * hi)
RECURSIVE ISqrtIn(_, _, _)
ISqrtIn(n, lo, hi) ==
    IF hi - lo <= 1 THEN lo
    ELSE LET mid == (lo + hi) \div 2
         IN  IF mid * mid <= n THEN ISqrtIn(n, mid, hi) ELSE ISqrtIn(n, lo, mid)
ISqrt(n) == ISqrtIn(n, 0, 46341)

-----------------------------------------------------------------------------
\* Coordinate reference systems and the projection between them.
\* A CRS is an EPSG code.  32601..32660 are the northern UTM zones, 32701..32760
\* the southern ones, 4326 is geographic lon/lat.

Epsg(n) == [k |-> "crs", code |-> n]
UtmNorthBase == 32600
UtmSouthBase == 32700
IsUtmNorth(n) == n \in (UtmNorthBase + 1)..(UtmNorthBase + 60)
IsUtmSouth(n) == n \in (UtmSouthBase + 1)..(UtmSouthBase + 60)
\* the codes set_crs accepts
KnownCrs(n) == n = 4326 \/ IsUtmNorth(n) \/ IsUtmSouth(n)

MetresPerDegree == 111000
FalseEasting == 500000
FalseNorthing == 10000000

ZoneBand(n) == IF IsUtmNorth(n) THEN n - UtmNorthBase ELSE n - UtmSouthBase
CentralMeridian(n) == 6 * ZoneBand(n) - 183

\* degrees of longitude from the central meridian of n, in -180..179
LonDiff(lon, n) == ((lon - CentralMeridian(n) + 180) % 360) - 180

\* one coordinate pair from geographic degrees into the CRS n
ForwardX(lon, n) == IF n = 4326 THEN lon
                    ELSE FalseEasting + LonDiff(lon, n) * MetresPerDegree
ForwardY(lat, n) == IF n = 4326 THEN lat
                    ELSE lat * MetresPerDegree + (IF IsUtmSouth(n) THEN FalseNorthing ELSE 0)
\* and back from the CRS n into geographic degrees
InverseX(x, n) == IF n = 4326 THEN x
                  ELSE CentralMeridian(n) + (x - FalseEasting) \div MetresPerDegree
InverseY(y, n) == IF n = 4326 THEN y
                  ELSE (y - (IF IsUtmSouth(n) THEN FalseNorthing ELSE 0)) \div MetresPerDegree

ReprojectX(x, from, to) == ForwardX(InverseX(x, from), to)
ReprojectY(y, from, to) == ForwardY(InverseY(y, from), to)

\* A transverse Mercator projection has no finite image 90 degrees or more away
\* from its central meridian: such coordinates come out infinite.
Projectable(x, from, to) ==
    to = 4326 \/ Abs(LonDiff(InverseX(x, from), to)) < 90

-----------------------------------------------------------------------------
\* Geometries.  A point is [k, x, y]; a line geometry is [k, parts] with parts a
\* non-empty set of [x1, y1, x2, y2], x1 <= x2, y1 <= y2 and x1 = x2 or y1 = y2.
\* Invalid is a geometry whose coordinates are not finite.

Pt(x, y) == [k |-> "point", x |-> x, y |-> y]
Part(x1, y1, x2, y2) == [x1 |-> x1, y1 |-> y1, x2 |-> x2, y2 |-> y2]
Line(parts) == [k |-> "line", parts |-> parts]
Invalid == [k |-> "invalid"]
\* a float NaN standing where a geometry is expected: no geometry object at all
NaN == [k |-> "nan"]

IsPoint(g) == g.k = "point"
IsLine(g) == g.k = "line"

\* GeoSeries.is_valid: False for a missing geometry and for non-finite coordinates
is_valid(g) == g.k \in {"point", "line"}

\* (minx, miny, maxx, maxy) of one geometry
Bounds(g) ==
    IF IsPoint(g) THEN <<g.x, g.y, g.x, g.y>>
    ELSE <<SetMin({p.x1 : p \in g.parts}), SetMin({p.y1 : p \in g.parts}),
           SetMax({p.x2 : p \in g.parts}), SetMax({p.y2 : p \in g.parts})>>

\* Euclidean length of (dx, dy), dx >= 0 and dy >= 0; exact when dx = 0 or
\* dy = 0, else rounded down to a whole metre (short lengths) or kilometre
Hypot(dx, dy) ==
    IF dx = 0 THEN dy
    ELSE IF dy = 0 THEN dx
    ELSE IF dx < 30000 /\ dy < 30000 THEN ISqrt(dx * dx + dy * dy)
    ELSE 1000 * ISqrt((dx \div 1000) * (dx \div 1000) + (dy \div 1000) * (dy \div 1000))

\* the parts of a geometry; a point is a part of no extent
Parts(g) == IF IsPoint(g) THEN {Part(g.x, g.y, g.x, g.y)} ELSE g.parts

\* The distance gone wrong: only the offset along x counts
PartDistanceAlongX(p, q) ==
    IF q.x2 < p.x1 THEN p.x1 - q.x2 ELSE IF q.x1 > p.x2 THEN q.x1 - p.x2 ELSE 0

\* distance between two parts (each runs along an axis or is a point)
PartDistance(p, q) ==
    LET dx == IF q.x2 < p.x1 THEN p.x1 - q.x2 ELSE IF q.x1 > p.x2 THEN q.x1 - p.x2 ELSE 0
        dy == IF q.y2 < p.y1 THEN p.y1 - q.y2 ELSE IF q.y1 > p.y2 THEN q.y1 - p.y2 ELSE 0
    IN  Hypot(dx, dy)

\* shapely distance between two geometries
Distance(g, h) == SetMin({PartDistance(p, q) : p \in Parts(g), q \in Parts(h)})

\* to_crs of one geometry
ProjectGeom(g, from, to) ==
    IF ~is_valid(g) THEN g
    ELSE IF IsPoint(g)
    THEN IF Projectable(g.x, from, to)
         THEN Pt(ReprojectX(g.x, from, to), ReprojectY(g.y, from, to))
         ELSE Invalid
    ELSE IF \A p \in g.parts : Projectable(p.x1, from, to) /\ Projectable(p.x2, from, to)
         THEN Line({Part(ReprojectX(p.x1, from, to), ReprojectY(p.y1, from, to),
                         ReprojectX(p.x2, from, to), ReprojectY(p.y2, from, to)) : p \in g.parts})
         ELSE Invalid

-----------------------------------------------------------------------------
\* find_nearest_plate_info: the resolver of one point against the candidate plates

\* result_series as initialised: every field missing
NullResult ==
    [distance_to_plate |-> Null, nearest_plate_strnum |-> Null,
     nearest_plate_platecode |-> Null, nearest_plate_geogdesc |-> Null,
     nearest_plate_boundary_t |-> Null]

\* distances.idxmin(): the position of the first smallest distance
IdxMin(distances) ==
    LET m == SetMin(Range(distances))
    IN  SetMin({i \in 1..Len(distances) : distances[i] = m})

\* an exception leaving a function instead of a return value
Raise(type) == [k |-> "raised", exception |-> type]
Raises(v) == "exception" \in DOMAIN v
\* a value a function returns, told apart from an exception
Return(v) == [k |-> "returned", v |-> v]

\* The value find_nearest_plate_info returns, or the exception that leaves it.
\* Line 59 stands before the try of line 66: None is answered first, then
\* .is_valid is read from whatever the cell holds, and a float has none.
find_nearest_plate_info(earthquake_utm_geom, plate_gdf_proj) ==
    IF earthquake_utm_geom = Null THEN NullResult
    ELSE IF earthquake_utm_geom = NaN THEN Raise("AttributeError")
    ELSE IF ~is_valid(earthquake_utm_geom) \/ plate_gdf_proj = <<>> THEN NullResult
    ELSE LET distances == [i \in 1..Len(plate_gdf_proj) |->
                              Distance(plate_gdf_proj[i].geometry, earthquake_utm_geom)]
             pos == IdxMin(distances)
             nearest_plate_idx_label == plate_gdf_proj[pos].idx
             \* distances.loc[label]: every row carrying that label
             hits == {i \in 1..Len(plate_gdf_proj) :
                          plate_gdf_proj[i].idx = nearest_plate_idx_label}
         IN  IF Cardinality(hits) > 1
             \* .loc gives a Series, "if pd.isna(min_distance)" raises, caught at line 108
             THEN NullResult
             ELSE [distance_to_plate |-> Num(distances[pos]),
                   nearest_plate_strnum |-> plate_gdf_proj[pos].strnum,
                   nearest_plate_platecode |-> plate_gdf_proj[pos].platecode,
                   nearest_plate_geogdesc |-> plate_gdf_proj[pos].geogdesc,
                   nearest_plate_boundary_t |-> plate_gdf_proj[pos].boundary_t]

-----------------------------------------------------------------------------
\* _process_zone: the task of one zone

\* utm_epsg cells: an int, a float, or a string "<prefix><digits>" / non-numeric text
EInt(n) == [k |-> "int", n |-> n]
EFloat(n) == [k |-> "float", n |-> n]
EStr(prefix, n) == [k |-> "text", prefix |-> prefix, numeric |-> TRUE, n |-> n]
EText(prefix) == [k |-> "text", prefix |-> prefix, numeric |-> FALSE, n |-> 0]

\* a value that is neither null nor a str, int or float (a list, say)
EOther == [k |-> "other"]

\* The parsing gone wrong: the prefix is compared as written, without upper()
ParseEpsgCaseSensitive(utm_epsg) ==
    IF isna(utm_epsg) THEN Null
    ELSE IF utm_epsg.k = "text"
    THEN IF utm_epsg.prefix \in {"EPSG:", ""} /\ utm_epsg.numeric
         THEN Num(utm_epsg.n)
         ELSE Null
    ELSE IF utm_epsg.k \in {"int", "float"} THEN Num(utm_epsg.n)
    ELSE Null

\* Lines 133-166: the EPSG number of a utm_epsg value, or Null when the zone is
\* skipped (null value, int() raising ValueError, unsupported type)
ParseEpsg(utm_epsg) ==
    IF isna(utm_epsg) THEN Null
    ELSE IF utm_epsg.k = "text"
    THEN IF utm_epsg.prefix \in {"EPSG:", "epsg:", ""} /\ utm_epsg.numeric
         THEN Num(utm_epsg.n)
         ELSE Null
    ELSE IF utm_epsg.k \in {"int", "float"} THEN Num(utm_epsg.n)
    ELSE Null

\* box intersection of two (minx, miny, maxx, maxy)
BoxesIntersect(a, b) == a[1] <= b[3] /\ b[1] <= a[3] /\ a[2] <= b[4] /\ b[2] <= a[4]

\* eq_subset_gdf.total_bounds: over the active geometry column, missing and
\* non-finite geometries skipped; Null when no geometry is left (NaN bounds)
total_bounds(rows, active) ==
    LET gs == {IF active = "geometry" THEN rows[i].geometry ELSE rows[i].utm_geometry :
                  i \in 1..Len(rows)}
        ok == {g \in gs : is_valid(g)}
    IN  IF ok = {} THEN Null
        ELSE [k |-> "box",
              b |-> <<SetMin({Bounds(g)[1] : g \in ok}), SetMin({Bounds(g)[2] : g \in ok}),
                      SetMax({Bounds(g)[3] : g \in ok}), SetMax({Bounds(g)[4] : g \in ok})>>]

\* Objects.  A table is a value here; which Python object holds it is named
\* apart, so that a write in place can be followed to the objects it reaches.
\* An object is named by how it was made, a sequence ending in a variable's name.
\* The copy gone wrong: the same object under a second name
CopyAliased(obj) == obj
\* DataFrame.copy(): a new object
CopyOf(obj) == <<"copy of">> \o obj

\* Lines 180-185: the object plate_gdf_proj is bound to before the filters
ProjectedObject(plate_gdf_copy, code) ==
    IF plate_gdf_copy.crs # Null /\ plate_gdf_copy.crs.code = code
    THEN CopyOf(<<"plate_gdf_copy">>)
    ELSE <<"to_crs of", "plate_gdf_copy">>

\* The projection gone wrong: to_crs is applied whatever the CRS of the plates
ProjectPlatesAlways(plate_gdf_copy, code) ==
    [i \in 1..Len(plate_gdf_copy.rows) |->
        [plate_gdf_copy.rows[i] EXCEPT
            !.geometry = ProjectGeom(@, plate_gdf_copy.crs.code, code)]]

\* Lines 178-186: the plates in the CRS of the zone
ProjectPlates(plate_gdf_copy, code) ==
    IF plate_gdf_copy.crs # Null /\ plate_gdf_copy.crs.code = code
    THEN plate_gdf_copy.rows
    ELSE [i \in 1..Len(plate_gdf_copy.rows) |->
             [plate_gdf_copy.rows[i] EXCEPT
                 !.geometry = ProjectGeom(@, plate_gdf_copy.crs.code, code)]]

\* Lines 201-212: the plates whose bounding box meets the buffered extent
FilterByExtent(plate_gdf_proj, eq_bounds) ==
    LET buffered_bounds == <<eq_bounds[1] - buffer_dist, eq_bounds[2] - buffer_dist,
                             eq_bounds[3] + buffer_dist, eq_bounds[4] + buffer_dist>>
        Hit(row) == BoxesIntersect(Bounds(row.geometry), buffered_bounds)
    IN  SelectSeq(plate_gdf_proj, Hit)

\* Lines 238-280: the resolver applied to every row, written back by index label
ApplyResolver(eq_subset_gdf, plate_gdf_to_use) ==
    LET nearest_info_df == [i \in 1..Len(eq_subset_gdf) |->
            [label |-> eq_subset_gdf[i].label,
             res |-> find_nearest_plate_info(eq_subset_gdf[i].utm_geometry, plate_gdf_to_use)]]
        At(label) == CHOOSE j \in 1..Len(nearest_info_df) : nearest_info_df[j].label = label
    IN  IF \E j \in 1..Len(nearest_info_df) : Raises(nearest_info_df[j].res)
        \* the exception leaves apply and is caught at line 282
        THEN eq_subset_gdf
        ELSE
        [i \in 1..Len(eq_subset_gdf) |->
            LET r == nearest_info_df[At(eq_subset_gdf[i].label)].res
            IN  [eq_subset_gdf[i] EXCEPT
                    !.distance_to_plate = r.distance_to_plate,
                    !.nearest_plate_strnum = r.nearest_plate_strnum,
                    !.nearest_plate_platecode = r.nearest_plate_platecode,
                    !.nearest_plate_geogdesc = r.nearest_plate_geogdesc,
                    !.nearest_plate_boundary_t = r.nearest_plate_boundary_t]]

\* The pre-filter gone wrong: with no plate in the buffered extent, every valid
\* plate is used
ZoneCandidatesUnfiltered(code, eq_subset_gdf, active, plate_gdf_copy, reproject_fails) ==
    LET same == plate_gdf_copy.crs # Null /\ plate_gdf_copy.crs.code = code
    IN  IF ~same /\ (reproject_fails \/ plate_gdf_copy.crs = Null) THEN <<>>
        ELSE LET projected == ProjectPlates(plate_gdf_copy, code)
                 IsValidRow(row) == is_valid(row.geometry)
                 plate_gdf_proj == SelectSeq(projected, IsValidRow)
                 eq_bounds == total_bounds(eq_subset_gdf, active)
             IN  IF plate_gdf_proj = <<>> \/ eq_bounds = Null THEN <<>>
                 ELSE IF FilterByExtent(plate_gdf_proj, eq_bounds.b) = <<>> THEN plate_gdf_proj
                 ELSE FilterByExtent(plate_gdf_proj, eq_bounds.b)

\* The candidate plates of a zone (lines 175-229), or <<>> when the zone is skipped.
\* reproject_fails: to_crs raises for this zone.
ZoneCandidates(code, eq_subset_gdf, active, plate_gdf_copy, reproject_fails) ==
    LET same == plate_gdf_copy.crs # Null /\ plate_gdf_copy.crs.code = code
    IN  IF ~same /\ (reproject_fails \/ plate_gdf_copy.crs = Null) THEN <<>>
        ELSE LET projected == ProjectPlates(plate_gdf_copy, code)
                 IsValidRow(row) == is_valid(row.geometry)
                 plate_gdf_proj == SelectSeq(projected, IsValidRow)
                 eq_bounds == total_bounds(eq_subset_gdf, active)
             IN  IF plate_gdf_proj = <<>> \/ eq_bounds = Null THEN <<>>
                 ELSE FilterByExtent(plate_gdf_proj, eq_bounds.b)

\* The value _process_zone returns: the processed subset, or the subset as it
\* came when the zone is skipped
process_zone(utm_epsg, eq_subset_gdf, active, plate_gdf_copy, reproject_fails) ==
    LET parsed == ParseEpsg(utm_epsg)
    IN  IF parsed = Null THEN eq_subset_gdf
        ELSE IF ~KnownCrs(parsed.v) THEN eq_subset_gdf
        ELSE IF eq_subset_gdf = <<>> THEN eq_subset_gdf
        ELSE LET plate_gdf_to_use ==
                     ZoneCandidates(parsed.v, eq_subset_gdf, active, plate_gdf_copy,
                                    reproject_fails)
             IN  IF plate_gdf_to_use = <<>> THEN eq_subset_gdf
                 ELSE ApplyResolver(eq_subset_gdf, plate_gdf_to_use)

-----------------------------------------------------------------------------
\* get_utm_info_and_reproject (data_processing.py): the zone of one row

\* the names bound in the module data_processing: its one import, "import pandas as pd"
ModuleNames == {"pd"}
\* the names the body of get_utm_info_and_reproject reads from the module
BodyNames == {"pd", "Point", "logging", "math", "gpd"}

\* Line 35: the band of a longitude
zone_number(lon) == (((lon + 180) \div 6) % 60) + 1

\* Lines 38-46: hemisphere letter and EPSG number
hemisphere(lat) == IF lat >= 0 THEN "N" ELSE "S"
epsg_base(lat) == IF lat >= 0 THEN UtmNorthBase ELSE UtmSouthBase

\* the tuple every early return gives
NoneTriple == <<Null, Null, Null>>

\* The function under the module namespace names: what it returns, or the
\* exception that leaves it.  reproject_fails: to_crs raises.  A name that is
\* not bound raises NameError where it is read; inside the try of line 33 the
\* handler of line 56 catches it and then reads logging itself.
utm_info_under(names, row, source_crs, reproject_fails) ==
    IF "Point" \notin names THEN Raise("NameError")
    ELSE IF row.geometry.k \notin {"point", "invalid"} THEN Return(NoneTriple)
    ELSE IF \/ row.geometry = Invalid
            \/ ~(-180 <= row.geometry.x /\ row.geometry.x <= 180
                    /\ -90 <= row.geometry.y /\ row.geometry.y <= 90)
    THEN IF "logging" \notin names THEN Raise("NameError") ELSE Return(NoneTriple)
    ELSE LET lon == row.geometry.x
             lat == row.geometry.y
             utm_epsg == epsg_base(lat) + zone_number(lon)
             fails == \/ "math" \notin names
                      \/ "gpd" \notin names
                      \/ source_crs = Null
                      \/ reproject_fails
         IN  IF fails
             THEN IF "logging" \notin names THEN Raise("NameError") ELSE Return(NoneTriple)
             ELSE Return(<<Str(<<zone_number(lon), hemisphere(lat)>>),
                          EStr("EPSG:", utm_epsg),
                          ProjectGeom(row.geometry, source_crs.code, utm_epsg)>>)

get_utm_info_and_reproject(row, source_crs, reproject_fails) ==
    utm_info_under(ModuleNames, row, source_crs, reproject_fails)

-----------------------------------------------------------------------------
\* Table helpers of calculate_distance_to_plate

\* Lines 354-357: the output columns appended to a row, every one missing
InitOutputCols(row) == row @@ NullResult

\* The groupby key of a utm_epsg cell: 32610 and 32610.0 are one key
GroupKey(utm_epsg) == IF utm_epsg.k = "float" THEN EInt(utm_epsg.n) ELSE utm_epsg

\* Sort order of the group keys: numbers first, then strings in character order
\* (digits < "EPSG:" < lower case)
KeyRank(key) ==
    IF key.k = "int" THEN key.n
    ELSE LET class == IF key.prefix = "" /\ key.numeric THEN 1
                      ELSE IF key.prefix = "EPSG:" THEN 2
                      ELSE IF key.prefix = "" THEN 3
                      ELSE 4
         IN  class * 1000000 + (IF key.numeric THEN key.n ELSE 999999)

RECURSIVE SortKeys(_)
SortKeys(keys) ==
    IF keys = {} THEN <<>>
    ELSE LET first == CHOOSE a \in keys : \A o \in keys : KeyRank(a) <= KeyRank(o)
         IN  <<first>> \o SortKeys(keys \ {first})

\* Line 388: dropna(subset=['utm_epsg'])
DropNaEpsg(rows) == LET Has(row) == notna(row.utm_epsg) IN SelectSeq(rows, Has)

\* Line 392: the keys of groupby('utm_epsg'), in iteration order
GroupKeys(rows) == SortKeys({GroupKey(rows[i].utm_epsg) : i \in 1..Len(rows)})

\* the rows of one group, in table order
\* The grouping gone wrong: a group holds its first row only
GroupRowsFirst(rows, key) ==
    LET In(row) == GroupKey(row.utm_epsg) = key IN SubSeq(SelectSeq(rows, In), 1, 1)

GroupRows(rows, key) ==
    LET In(row) == GroupKey(row.utm_epsg) = key IN SelectSeq(rows, In)

\* Concat gone wrong: only the subset collected first is kept
ConcatFirstOnly(frames) == IF frames = <<>> THEN <<>> ELSE Head(frames)

RECURSIVE Concat(_)
\* Line 450: pd.concat(results_list, ignore_index=False)
Concat(frames) == IF frames = <<>> THEN <<>> ELSE Head(frames) \o Concat(Tail(frames))

HasDuplicateLabels(rows) ==
    \E i, j \in 1..Len(rows) : i # j /\ rows[i].label = rows[j].label

\* Update gone wrong: only the distance column is written
UpdateDistanceOnly(self, other) ==
    [i \in 1..Len(self) |->
        LET hits == {j \in 1..Len(other) : other[j].label = self[i].label}
        IN  IF hits = {} THEN self[i]
            ELSE LET o == other[CHOOSE j \in hits : TRUE]
                 IN  [self[i] EXCEPT !.distance_to_plate =
                         IF notna(o.distance_to_plate) THEN o.distance_to_plate ELSE @]]

\* Update gone wrong: rows are matched by position, not by index label
UpdateByPosition(self, other) ==
    [i \in 1..Len(self) |->
        IF i > Len(other) THEN self[i]
        ELSE LET o == other[i]
                 Cell(col) == IF notna(o[col]) THEN o[col] ELSE self[i][col]
             IN  [self[i] EXCEPT
                     !.distance_to_plate = Cell("distance_to_plate"),
                     !.nearest_plate_strnum = Cell("nearest_plate_strnum"),
                     !.nearest_plate_platecode = Cell("nearest_plate_platecode"),
                     !.nearest_plate_geogdesc = Cell("nearest_plate_geogdesc"),
                     !.nearest_plate_boundary_t = Cell("nearest_plate_boundary_t")]]

\* Line 457: DataFrame.update(other[OUTPUT_COLS], overwrite=True): other is aligned
\* on the index labels of self and its non-missing cells overwrite
Update(self, other) ==
    [i \in 1..Len(self) |->
        LET hits == {j \in 1..Len(other) : other[j].label = self[i].label}
        IN  IF hits = {} THEN self[i]
            ELSE LET o == other[CHOOSE j \in hits : TRUE]
                     Cell(col) == IF notna(o[col]) THEN o[col] ELSE self[i][col]
                 IN  [self[i] EXCEPT
                         !.distance_to_plate = Cell("distance_to_plate"),
                         !.nearest_plate_strnum = Cell("nearest_plate_strnum"),
                         !.nearest_plate_platecode = Cell("nearest_plate_platecode"),
                         !.nearest_plate_geogdesc = Cell("nearest_plate_geogdesc"),
                         !.nearest_plate_boundary_t = Cell("nearest_plate_boundary_t")]]

\* The merge gone wrong: the concatenated subsets are returned as they are
MergeResultsConcatOnly(processed, results, fault) ==
    IF results = <<>> THEN processed ELSE Concat(results)

\* The merge gone wrong: the concatenated subsets, then the rows no zone returned
MergeResultsAppendRest(processed, results, fault) ==
    IF results = <<>> THEN processed
    ELSE LET final == Concat(results)
             Rest(row) == \A j \in 1..Len(final) : final[j].label # row.label
         IN  final \o SelectSeq(processed, Rest)

\* Lines 441-482: the table the merge step leaves in final_gdf.  fault is what
\* the step meets: "none"; "concat", pd.concat raising (line 450, before the
\* update); "geodataframe", the GeoDataFrame construction raising (line 469,
\* after the update).  Both are caught at line 479.
MergeResults(processed, results, fault) ==
    IF results = <<>> THEN processed
    ELSE IF fault = "concat" THEN processed
    ELSE LET final == Concat(results)
         IN  IF HasDuplicateLabels(final)
             \* update raises on reindexing, nothing was written
             THEN processed
             ELSE Update(processed, final)

-----------------------------------------------------------------------------
\* Inputs.  Earthquake rows as get_utm_info_and_reproject leaves them, and
\* rows whose utm_epsg or utm_geometry is missing or malformed.

\* geographic positions (lon, lat)
SiteA == Pt(-123, 5)
SiteB == Pt(-120, 7)

EqRow(site, utm_epsg, utm_geometry) ==
    [geometry |-> site, utm_epsg |-> utm_epsg, utm_geometry |-> utm_geometry]

RowKinds ==
    { EqRow(SiteA, EStr("EPSG:", 32610), ProjectGeom(SiteA, 4326, 32610)),
      EqRow(SiteB, EStr("EPSG:", 32611), ProjectGeom(SiteB, 4326, 32611)),
      EqRow(SiteA, Null, Null),
      EqRow(SiteA, EText(""), ProjectGeom(SiteA, 4326, 32610)),
      EqRow(SiteA, EInt(99999), ProjectGeom(SiteA, 4326, 32610)),
      EqRow(SiteA, EStr("EPSG:", 32610), Null) }

\* index labels: distinct, not consecutive
LabelOf(i) == 10 * i + 1

\* the order of the labels along the rows: ascending or descending
LabelOrders(n) == {[i \in 1..n |-> i], [i \in 1..n |-> n + 1 - i]}

\* every earthquake table of n rows
EqTables(n) ==
    { [i \in 1..n |-> kinds[i] @@ [label |-> LabelOf(order[i])]] :
          kinds \in [1..n -> RowKinds], order \in LabelOrders(n) }

PlateRow(idx, geometry, strnum, geogdesc) ==
    [idx |-> idx, geometry |-> geometry, strnum |-> Str(strnum), platecode |-> Str("NA-PA"),
     geogdesc |-> geogdesc, boundary_t |-> Str("transform")]

\* plate boundaries in geographic coordinates
PlateSouth == Line({Part(-126, 5, -114, 5)})
PlateNorth == Line({Part(-126, 38, -120, 38), Part(-120, 38, -120, 44)})
PlateFar == Line({Part(30, 60, 40, 60)})

PlateTables ==
    { [rows |-> <<>>, crs |-> Epsg(4326)],
      [rows |-> <<PlateRow(0, PlateNorth, "s2", Str("ridge")),
                  PlateRow(1, PlateSouth, "s1", Str("coast"))>>, crs |-> Epsg(4326)],
      [rows |-> <<PlateRow(0, PlateSouth, "s1", Null),
                  PlateRow(1, PlateFar, "s3", Str("far"))>>, crs |-> Null],
      [rows |-> <<PlateRow(0, ProjectGeom(PlateNorth, 4326, 32610), "s2", Str("ridge"))>>,
       crs |-> Epsg(32610)] }

-----------------------------------------------------------------------------
\* State

VARIABLES
    earthquake_gdf,     \* argument: [rows, active, frame], active the geometry column
    plate_gdf,          \* argument: [rows, crs, frame]
    max_workers,        \* argument
    pc,                 \* "start", "pool", "done"
    eq_gdf_processed,   \* the working copy of the earthquake rows
    plate_gdf_copy,     \* the working copy of the plates
    grouped_eq,         \* the group keys, in iteration order
    futures,            \* one record per submitted task, in submission order
    results_list,       \* the subsets collected so far
    returned,           \* the table handed back to the caller, Null before
    raised,             \* an exception left calculate_distance_to_plate
    fate,               \* what the environment does to each task and to the merge
    call,               \* 1 in the first call, 2 when the same call is made again
    first_returned,     \* what the first call returned, Null during it
    applied,            \* a helper function called on its own: [fn, arguments], else Null
    outcome,            \* what that call returned or raised, Null before
    logger,             \* the module logger: [level, before], before its level at Init
    callers,            \* per caller of calculate_distance_to_plate: [at, log_level,
                        \* original_level, via, met]
    data_dir,           \* seismic_data.py: the file paths that exist under data_dir
    seismic,            \* the calls of fetch_seismic_data: their arguments and tasks
    DATA_DIR,           \* data_fetching.py: per day, what its file under DATA_DIR holds
    quakes              \* the calls of fetch_and_load_earthquake_data

vars == <<earthquake_gdf, plate_gdf, max_workers, pc, eq_gdf_processed, plate_gdf_copy,
          grouped_eq, futures, results_list, returned, raised, fate, call, first_returned,
          applied, outcome, logger, callers, data_dir, seismic, DATA_DIR, quakes>>

\* the data directories and calls of the two fetchers
fetching == <<data_dir, seismic, DATA_DIR, quakes>>

\* the logger and the callers' logging locals
logging == <<logger, callers>>

\* what no step of a call changes
inputs == <<earthquake_gdf, plate_gdf, max_workers, call, first_returned, applied, outcome,
            fetching>>

\* the same without earthquake_gdf, for the steps that write to its working copy
inputs_but_earthquakes == <<plate_gdf, max_workers, call, first_returned, applied, outcome,
                            fetching>>

\* what can happen to a zone task from outside: nothing, to_crs raising, or an
\* exception leaving _process_zone (future.result() raises)
TaskFates == {"none", "reproject", "raise"}
MergeFates == {"none", "concat", "geodataframe"}

Frame(rows) == [k |-> "frame", rows |-> rows]

\* What an argument is: a GeoDataFrame with the required columns, something that
\* is no GeoDataFrame, or a GeoDataFrame that lacks a required column
Frames == {"ok", "not_geodataframe", "missing_columns"}

\* Lines 334-348: both arguments pass the input validation
ValidInputs == earthquake_gdf.frame = "ok" /\ plate_gdf.frame = "ok"

\* Lines 318-321: the levels by name (logging.CRITICAL + 1 for 'NONE')
log_level_map ==
    [name \in {"DEBUG", "INFO", "WARNING", "ERROR", "NONE"} |->
        CASE name = "DEBUG" -> 10
          [] name = "INFO" -> 20
          [] name = "WARNING" -> 30
          [] name = "ERROR" -> 40
          [] name = "NONE" -> 51]

\* str(log_level): None prints as 'None'
StrOf(log_level) == IF log_level = Null THEN "None" ELSE log_level.v

\* str.upper() on the strings used here
Upper(text) ==
    CASE text = "info" -> "INFO"
      [] text = "None" -> "NONE"
      [] text = "verbose" -> "VERBOSE"
      [] OTHER -> text

\* Line 322: log_level_map.get(str(log_level).upper(), logging.INFO)
requested_level(log_level) ==
    LET name == Upper(StrOf(log_level))
    IN  IF name \in DOMAIN log_level_map THEN log_level_map[name] ELSE log_level_map["INFO"]

\* Line 332: log_level.upper() raises AttributeError unless log_level is a str
UpperRaises(log_level) == log_level = Null

\* Logger.setLevel
setLevel(lg, level) == [lg EXCEPT !.level = level]

\* The restoration gone wrong: the level is left as the call set it
RestoreLevelNever(lg, original_level) == lg

\* Lines 496-498: finally: logger.setLevel(original_level)
RestoreLevel(lg, original_level) == setLevel(lg, original_level)

\* the callers of calculate_distance_to_plate: the call followed in full is
\* caller 1
Callers == {1, 2}
Idle(log_level) ==
    [at |-> "idle", log_level |-> log_level, original_level |-> Null, via |-> "", met |-> FALSE]

\* Lines 322-324, caller 1 entering the try block
LoggerSetup ==
    /\ logger' = setLevel(logger, requested_level(callers[1].log_level))
    /\ callers' = [callers EXCEPT ![1].at = "try", ![1].original_level = Num(logger.level)]

\* Lines 496-498, caller 1 leaving through the finally block
LoggerRestore ==
    /\ logger' = RestoreLevel(logger, callers[1].original_level.v)
    /\ callers' = [callers EXCEPT ![1].at = "returned"]

\* Lines 322-324 and 496-498 in one step of caller 1, for the paths that
\* return before the pool is opened
LoggerSetupAndRestore ==
    /\ logger' = RestoreLevel(setLevel(logger, requested_level(callers[1].log_level)),
                              logger.level)
    /\ callers' = [callers EXCEPT ![1].at = "returned", ![1].original_level = Num(logger.level)]

\* seismic_data.py: the monthly MiniSEED files of fetch_seismic_data

\* most months in the requested range
MaxMonths == 1

\* most calls of a fetcher, one after the other
MaxCalls == 3

\* the first month of the ranges, as 12 * year + month - 1 (2023-12)
FirstMonth == 12 * 2023 + 11

\* Lines 17-57: request tuples (network, station, location, channel), two of
\* DEFAULT_STATION_REQUESTS and one with an empty channel code
StationRequests ==
    { <<"IU", "ANMO", "00", "BHZ">>, <<"IC", "RES", "", "BHZ">>, <<"IU", "ANMO", "00", "">> }

\* the station_requests arguments: one tuple, or the first tuple and another
RequestLists ==
    { {req} : req \in StationRequests } \cup
    { {<<"IU", "ANMO", "00", "BHZ">>, req} : req \in StationRequests }

\* what client.get_stations reports for a station: (longitude, latitude) in
\* hundredths of a degree
StationCoords(key) ==
    IF key = <<"IU", "ANMO">> THEN <<-10646, 3495>> ELSE <<-9490, 7469>>

\* Lines 60-66: the (year, month) pairs from the start month to the end month
month_year_iter(start_month, start_year, end_month, end_year) ==
    { <<ym \div 12, (ym % 12) + 1>> :
        ym \in (12 * start_year + start_month - 1)..(12 * end_year + end_month - 1) }

\* Lines 227-244: the inventory, {} when client.get_stations raised
StationInventory(station_requests, fetched) ==
    IF fetched THEN { <<req[1], req[2]>> : req \in station_requests } ELSE {}

\* Lines 108-116 and 257-264, the same text in both functions
coord_str(station_inventory, network, station) ==
    IF <<network, station>> \in station_inventory
    THEN LET lon == StationCoords(<<network, station>>)[1]
             lat == StationCoords(<<network, station>>)[2]
         IN  [k |-> "coords",
              lon_str |-> <<IF lon < 0 THEN -lon ELSE lon, IF lon < 0 THEN "W" ELSE "E">>,
              lat_str |-> <<IF lat < 0 THEN -lat ELSE lat, IF lat < 0 THEN "S" ELSE "N">>]
    ELSE [k |-> "_lonNA_latNA"]

\* the path station_dir/{network}.{station}{coord_str}.{loc_fn}.{chan_fn}__{month_str}.mseed
\* (lines 101-104 and 122-123, lines 256 and 267-269), by its parts
MseedPath(network, station, coords, loc_fn, chan_fn, target_year, target_month) ==
    [station_dir |-> <<network, station>>, network |-> network, station |-> station,
     coord_str |-> coords, loc_fn |-> loc_fn, chan_fn |-> chan_fn,
     month_str |-> <<target_year, target_month>>]

\* Lines 93-123: the path _download_single_station_month writes, '__' standing
\* for an empty location or channel code
WrittenFilepath(request_tuple, target_year, target_month, station_inventory) ==
    MseedPath(request_tuple[1], request_tuple[2],
              coord_str(station_inventory, request_tuple[1], request_tuple[2]),
              IF request_tuple[3] # "" THEN request_tuple[3] ELSE "__",
              IF request_tuple[4] # "" THEN request_tuple[4] ELSE "__",
              target_year, target_month)

\* Lines 255-269: the path fetch_seismic_data checks, '*' standing for an
\* empty location or channel code
ExpectedFilepath(request_tuple, target_year, target_month, station_inventory) ==
    MseedPath(request_tuple[1], request_tuple[2],
              coord_str(station_inventory, request_tuple[1], request_tuple[2]),
              IF request_tuple[3] # "" THEN request_tuple[3] ELSE "*",
              IF request_tuple[4] # "" THEN request_tuple[4] ELSE "*",
              target_year, target_month)

\* Lines 247-276: the station-months to download
TasksToRun(files, station_requests, months, station_inventory, force_download) ==
    { [request_tuple |-> req, target_year |-> m[1], target_month |-> m[2]] :
        <<req, m>> \in { rm \in station_requests \X months :
            force_download \/ ExpectedFilepath(rm[1], rm[2][1], rm[2][2], station_inventory)
                                  \notin files } }

\* what a download task can end in (lines 138, 143, 147, 151)
SeismicStatuses == {"success", "no_data", "no_data_fdsn", "error"}

\* Lines 129-151: the files after a download task that ended in status
download_single_station_month(files, task, station_inventory, status) ==
    IF status = "success"
    THEN files \cup {WrittenFilepath(task.request_tuple, task.target_year, task.target_month,
                                     station_inventory)}
    ELSE files

\* no call of fetch_seismic_data was made yet
NoSeismicCall(station_requests, start_ym, end_ym) ==
    [n |-> 0, at |-> "idle", station_requests |-> station_requests,
     start_ym |-> start_ym, end_ym |-> end_ym, force_download |-> FALSE,
     station_inventory |-> {}, tasks_to_run |-> {}, pending |-> {},
     saved |-> {}, resubmitted |-> {}]

-----------------------------------------------------------------------------
\* data_fetching.py: the daily GeoJSON files of fetch_and_load_earthquake_data

\* most days the calls cover, counted from a first day
MaxDays == 2

Days == 1..MaxDays

\* Lines 33-35 and 137-139, the same text in both functions:
\* DATA_DIR/earthquakes-{day_str}.geojson
DayFilePath(current_date) == <<"earthquakes-", current_date, ".geojson">>

\* os.path.exists(file_path)
Exists(dir, file_path) == \E f \in dir : f.file_path = file_path

\* open(file_path, 'w') followed by what reached the file
Written(dir, file_path, holds) ==
    {f \in dir : f.file_path # file_path} \cup {[file_path |-> file_path, holds |-> holds]}

\* What a request for one day runs into: features, none, lines 55-57 raising,
\* open (lines 61, 66) raising, json.dump (lines 62, 67) raising after the
\* file was opened for writing (IOError, or a string the encoding rejects)
Responses == {"features", "no_features", "request_fails", "open_fails", "dump_fails"}

\* Lines 63, 68, 70-77: the status returned
DayStatus(response) ==
    CASE response = "features" -> "success"
      [] response = "no_features" -> "no_features"
      [] response = "request_fails" -> "error: Request failed"
      [] OTHER -> "error: File save failed"

IsError(status) == status \notin {"none", "success", "no_features"}

\* Lines 51-77: DATA_DIR after _download_single_day met response
download_single_day(dir, current_date, response) ==
    CASE response = "features" -> Written(dir, DayFilePath(current_date), "features")
      [] response = "no_features" -> Written(dir, DayFilePath(current_date), "empty")
      [] response = "dump_fails" -> Written(dir, DayFilePath(current_date), "partial")
      [] OTHER -> dir

\* Lines 132-143: the days to download
DatesToDownload(dir, start_dt, end_dt, force_download) ==
    { current_date \in start_dt..end_dt :
        ~Exists(dir, DayFilePath(current_date)) \/ force_download }

\* no call of fetch_and_load_earthquake_data was made yet
NoQuakeCall ==
    [n |-> 0, at |-> "idle", start_dt |-> 1, end_dt |-> 0, force_download |-> FALSE,
     forced |-> FALSE, dates_to_download |-> {}, pending |-> {},
     status |-> [d \in Days |-> [status |-> "none", response |-> "none"]],
     earlier |-> [d \in Days |-> [status |-> "none", response |-> "none"]]]

\* neither fetcher is called and both data directories are empty
NoFetch ==
    /\ data_dir = {}
    /\ seismic = NoSeismicCall({}, FirstMonth, FirstMonth)
    /\ DATA_DIR = {}
    /\ quakes = NoQuakeCall

\* the logger as the application left it (WARNING) and one caller with the
\* default log_level
OneCaller ==
    /\ logger = [level |-> log_level_map["WARNING"], before |-> log_level_map["WARNING"]]
    /\ callers = [t \in Callers |-> Idle(Str("INFO"))]

Init ==
    /\ OneCaller
    /\ NoFetch
    /\ max_workers \in {0, 1, MaxWorkers}
    /\ \E n \in 0..MaxRows : \E rows \in EqTables(n) : \E active \in {"geometry", "utm_geometry"} :
       \E eq_frame \in Frames : \E plate_frame \in Frames : \E plates \in PlateTables :
           /\ earthquake_gdf = [rows |-> rows, active |-> active, frame |-> eq_frame]
           /\ plate_gdf = [rows |-> plates.rows, crs |-> plates.crs, frame |-> plate_frame]
           \* one malformed argument at a time
           /\ eq_frame # "ok" \/ plate_frame # "ok" =>
                  /\ eq_frame = "ok" \/ plate_frame = "ok"
                  /\ active = "geometry"
                  /\ max_workers = 1
    /\ pc = "start"
    /\ eq_gdf_processed = <<>>
    /\ plate_gdf_copy = Null
    /\ grouped_eq = <<>>
    /\ futures = <<>>
    /\ results_list = <<>>
    /\ returned = Null
    /\ raised = FALSE
    \* set_crs can fail only where line 379 is reached
    /\ \E set_crs \in BOOLEAN :
          /\ set_crs => /\ ValidInputs
                        /\ earthquake_gdf.rows # <<>>
                        /\ plate_gdf.rows # <<>>
                        /\ plate_gdf.crs = Null
          /\ fate = [tasks |-> {}, merge |-> "unset", set_crs |-> set_crs]
    /\ call = 1
    /\ first_returned = Null
    /\ applied = Null
    /\ outcome = Null

\* The working copy gone wrong: the rows without utm_epsg are dropped from it
InitialCopyDropped ==
    DropNaEpsg([i \in 1..Len(earthquake_gdf.rows) |-> InitOutputCols(earthquake_gdf.rows[i])])

\* Lines 350-357: the copy of the earthquake table with the output columns added
InitialCopy == [i \in 1..Len(earthquake_gdf.rows) |-> InitOutputCols(earthquake_gdf.rows[i])]

\* Line 351: the object eq_gdf_processed is bound to
WorkingObject == CopyOf(<<"earthquake_gdf">>)

\* Lines 355-357 and 455: eq_gdf_processed is written in place (columns
\* assigned, DataFrame.update); what the caller's earthquake_gdf holds after it.
\* plate_gdf_copy is never written in place: set_crs (line 379) and to_crs
\* (line 185) return new objects, so no step gives plate_gdf a new value.
WriteThrough(rows) ==
    IF WorkingObject = <<"earthquake_gdf">>
    THEN [earthquake_gdf EXCEPT !.rows = rows]
    ELSE earthquake_gdf

\* The emptiness check of the plate table left out
PlatesEmptyNever == FALSE

\* Line 363: plate_gdf.empty
PlatesEmpty == plate_gdf.rows = <<>>

\* Lines 334-348: an argument fails the validation and earthquake_gdf itself is
\* returned, as it came
ReturnInvalid ==
    /\ pc = "start"
    /\ ~ValidInputs
    /\ returned' = Frame(earthquake_gdf.rows)
    /\ pc' = "done"
    /\ LoggerSetupAndRestore
    /\ UNCHANGED <<inputs, eq_gdf_processed, plate_gdf_copy, grouped_eq, futures, results_list,
                   raised, fate>>

\* Lines 360-362: an empty earthquake table is answered at once
ReturnEmptyEarthquakes ==
    /\ pc = "start"
    /\ ValidInputs
    /\ earthquake_gdf.rows = <<>>
    /\ eq_gdf_processed' = InitialCopy
    /\ returned' = Frame(InitialCopy)
    /\ pc' = "done"
    /\ earthquake_gdf' = WriteThrough(eq_gdf_processed')
    /\ LoggerSetupAndRestore
    /\ UNCHANGED <<inputs_but_earthquakes, plate_gdf_copy, grouped_eq, futures, results_list, raised, fate>>

\* Lines 363-365: so is an empty plate table
ReturnEmptyPlates ==
    /\ pc = "start"
    /\ ValidInputs
    /\ earthquake_gdf.rows # <<>>
    /\ PlatesEmpty
    /\ eq_gdf_processed' = InitialCopy
    /\ returned' = Frame(InitialCopy)
    /\ pc' = "done"
    /\ earthquake_gdf' = WriteThrough(eq_gdf_processed')
    /\ LoggerSetupAndRestore
    /\ UNCHANGED <<inputs_but_earthquakes, plate_gdf_copy, grouped_eq, futures, results_list, raised, fate>>

\* The default gone wrong: the plates are taken to be in the CRS of a zone
PlateCopyZoneCrs == [plate_gdf EXCEPT !.crs = IF @ = Null THEN Epsg(32610) ELSE @]

\* Lines 375-384: the plates' working copy, with the default CRS when it has none
PlateCopy == [plate_gdf EXCEPT !.crs = IF @ = Null THEN DEFAULT_CRS ELSE @]

\* Lines 378-382: set_crs is called and raises
SetCrsFails == plate_gdf.crs = Null /\ fate.set_crs

\* Lines 380-382: the default CRS cannot be set; the working copy is returned
\* with its null columns
ReturnCrsFailure ==
    /\ pc = "start"
    /\ ValidInputs
    /\ earthquake_gdf.rows # <<>>
    /\ ~PlatesEmpty
    /\ SetCrsFails
    /\ eq_gdf_processed' = InitialCopy
    /\ plate_gdf_copy' = plate_gdf
    /\ returned' = Frame(InitialCopy)
    /\ pc' = "done"
    /\ earthquake_gdf' = WriteThrough(eq_gdf_processed')
    /\ LoggerSetupAndRestore
    /\ UNCHANGED <<inputs_but_earthquakes, grouped_eq, futures, results_list, raised, fate>>

\* Lines 386-398: no row has a utm_epsg
ReturnNoZones ==
    /\ pc = "start"
    /\ ValidInputs
    /\ earthquake_gdf.rows # <<>>
    /\ ~PlatesEmpty
    /\ ~SetCrsFails
    /\ GroupKeys(DropNaEpsg(InitialCopy)) = <<>>
    /\ eq_gdf_processed' = InitialCopy
    /\ plate_gdf_copy' = PlateCopy
    /\ returned' = Frame(InitialCopy)
    /\ pc' = "done"
    /\ earthquake_gdf' = WriteThrough(eq_gdf_processed')
    /\ LoggerSetupAndRestore
    /\ UNCHANGED <<inputs_but_earthquakes, grouped_eq, futures, results_list, raised, fate>>

\* Line 410 with max_workers = 0: ProcessPoolExecutor raises ValueError, caught at
\* line 485; final_gdf is still None and becomes a fresh copy with null columns
PoolRejected ==
    /\ pc = "start"
    /\ ValidInputs
    /\ earthquake_gdf.rows # <<>>
    /\ ~PlatesEmpty
    /\ ~SetCrsFails
    /\ GroupKeys(DropNaEpsg(InitialCopy)) # <<>>
    /\ max_workers = 0
    /\ eq_gdf_processed' = InitialCopy
    /\ plate_gdf_copy' = PlateCopy
    /\ grouped_eq' = GroupKeys(DropNaEpsg(InitialCopy))
    /\ returned' = Frame(InitialCopy)
    /\ pc' = "done"
    /\ earthquake_gdf' = WriteThrough(eq_gdf_processed')
    /\ LoggerSetupAndRestore
    /\ UNCHANGED <<inputs_but_earthquakes, futures, results_list, raised, fate>>

\* Lines 350-410: copies made, rows grouped, the pool opened
OpenPool ==
    /\ pc = "start"
    /\ ValidInputs
    /\ earthquake_gdf.rows # <<>>
    /\ ~PlatesEmpty
    /\ ~SetCrsFails
    /\ GroupKeys(DropNaEpsg(InitialCopy)) # <<>>
    /\ max_workers > 0
    /\ eq_gdf_processed' = InitialCopy
    /\ plate_gdf_copy' = PlateCopy
    /\ grouped_eq' = GroupKeys(DropNaEpsg(InitialCopy))
    /\ pc' = "pool"
    /\ earthquake_gdf' = WriteThrough(eq_gdf_processed')
    /\ LoggerSetup
    /\ UNCHANGED <<inputs_but_earthquakes, futures, results_list, returned, raised, fate>>

\* Lines 411-422: the next group is submitted as a task
Submit ==
    /\ pc = "pool"
    /\ Len(futures) < Len(grouped_eq)
    /\ LET utm_epsg == grouped_eq[Len(futures) + 1]
       IN  futures' = Append(futures,
               [utm_epsg |-> utm_epsg,
                eq_subset_gdf |-> GroupRows(DropNaEpsg(eq_gdf_processed), utm_epsg),
                state |-> "pending", exception |-> FALSE, result |-> <<>>])
    /\ UNCHANGED <<logging, inputs, pc, eq_gdf_processed, plate_gdf_copy, grouped_eq, results_list,
                   returned, raised, fate>>

Running == {i \in 1..Len(futures) : futures[i].state = "running"}
Pending == {i \in 1..Len(futures) : futures[i].state = "pending"}

\* A free worker of the pool takes the oldest waiting task
StartTask ==
    /\ pc = "pool"
    /\ Pending # {}
    /\ Cardinality(Running) < max_workers
    /\ futures' = [futures EXCEPT ![SetMin(Pending)].state = "running"]
    /\ UNCHANGED <<logging, inputs, pc, eq_gdf_processed, plate_gdf_copy, grouped_eq, results_list,
                   returned, raised, fate>>

\* what the environment does to the task of a zone: drawn once, then kept
\* Line 185 is reached: the zone code parses to a known CRS other than the plates'
CallsToCrs(utm_epsg) ==
    LET parsed == ParseEpsg(utm_epsg)
    IN  /\ parsed # Null
        /\ KnownCrs(parsed.v)
        /\ plate_gdf_copy.crs.code # parsed.v

FateOfTask(utm_epsg, f) ==
    IF \E e \in fate.tasks : e.utm_epsg = utm_epsg
    THEN [utm_epsg |-> utm_epsg, f |-> f] \in fate.tasks
    ELSE f = "reproject" => CallsToCrs(utm_epsg)

\* The body of a zone task under the fate f: [exception, result]
RunTask(task, f) ==
    IF f = "raise" THEN [exception |-> TRUE, result |-> <<>>]
    ELSE [exception |-> FALSE,
          result |-> process_zone(task.utm_epsg, task.eq_subset_gdf, earthquake_gdf.active,
                                  plate_gdf_copy, f = "reproject")]

\* A running task ends: _process_zone returns or raises
FinishTask(i) ==
    /\ pc = "pool"
    /\ i \in Running
    /\ \E f \in TaskFates :
          /\ FateOfTask(futures[i].utm_epsg, f)
          /\ fate' = [fate EXCEPT !.tasks = @ \cup {[utm_epsg |-> futures[i].utm_epsg, f |-> f]}]
          /\ LET out == RunTask(futures[i], f)
             IN  futures' = [futures EXCEPT ![i].state = "done",
                                            ![i].exception = out.exception,
                                            ![i].result = out.result]
    /\ UNCHANGED <<logging, inputs, pc, eq_gdf_processed, plate_gdf_copy, grouped_eq, results_list,
                   returned, raised>>

\* The collection gone wrong: a failed future empties what was collected
CollectOneReset(future, results) ==
    IF future.exception THEN [results_list |-> <<>>, raised |-> FALSE]
    ELSE IF future.result # <<>>
    THEN [results_list |-> Append(results, future.result), raised |-> FALSE]
    ELSE [results_list |-> results, raised |-> FALSE]

\* The collection gone wrong: future.result() is called outside any try
CollectOneNoCatch(future, results) ==
    IF future.exception THEN [results_list |-> results, raised |-> TRUE]
    ELSE IF future.result # <<>>
    THEN [results_list |-> Append(results, future.result), raised |-> FALSE]
    ELSE [results_list |-> results, raised |-> FALSE]

\* Lines 427-437: what the loop over as_completed does with one finished future:
\* [results_list, raised]
CollectOne(future, results) ==
    IF future.exception THEN [results_list |-> results, raised |-> FALSE]
    ELSE IF future.result # <<>>
    THEN [results_list |-> Append(results, future.result), raised |-> FALSE]
    ELSE [results_list |-> results, raised |-> FALSE]

\* as_completed hands over a finished future (after every task was submitted)
Collect(i) ==
    /\ pc = "pool"
    /\ Len(futures) = Len(grouped_eq)
    /\ i \in 1..Len(futures)
    /\ futures[i].state = "done"
    /\ LET out == CollectOne(futures[i], results_list)
       IN  /\ results_list' = out.results_list
           /\ raised' = out.raised
           /\ pc' = IF out.raised THEN "done" ELSE pc
           \* an exception on its way out still passes the finally block
           /\ IF out.raised THEN LoggerRestore ELSE UNCHANGED logging
    /\ futures' = [futures EXCEPT ![i].state = "collected"]
    /\ UNCHANGED <<inputs, eq_gdf_processed, plate_gdf_copy, grouped_eq, returned, fate>>

\* The end of the collection gone wrong: one collected future is enough
AnyCollected ==
    /\ Len(futures) = Len(grouped_eq)
    /\ \E i \in 1..Len(futures) : futures[i].state = "collected"

\* Lines 426-437: the loop over as_completed(futures) has ended, every future
\* was handed over
AllCollected ==
    /\ Len(futures) = Len(grouped_eq)
    /\ \A i \in 1..Len(futures) : futures[i].state = "collected"

\* Lines 439-511: the results are merged into the working copy, which is returned
Merge ==
    /\ pc = "pool"
    /\ AllCollected
    /\ \E f \in MergeFates :
          /\ IF fate.merge = "unset" THEN (f # "none" => results_list # <<>>)
                                     ELSE fate.merge = f
          /\ fate' = [fate EXCEPT !.merge = f]
          /\ eq_gdf_processed' = MergeResults(eq_gdf_processed, results_list, f)
    /\ returned' = Frame(eq_gdf_processed')
    /\ pc' = "done"
    /\ earthquake_gdf' = WriteThrough(eq_gdf_processed')
    /\ LoggerRestore
    /\ UNCHANGED <<inputs_but_earthquakes, plate_gdf_copy, grouped_eq, futures, results_list, raised>>

Next ==
    \/ ReturnInvalid
    \/ ReturnEmptyEarthquakes
    \/ ReturnEmptyPlates
    \/ ReturnCrsFailure
    \/ ReturnNoZones
    \/ PoolRejected
    \/ OpenPool
    \/ Submit
    \/ StartTask
    \/ \E i \in 1..MaxRows : FinishTask(i)
    \/ \E i \in 1..MaxRows : Collect(i)
    \/ Merge

Spec == Init /\ [][Next]_vars

\* The caller makes the same call again, in the same environment
CallAgain ==
    /\ pc = "done"
    /\ call = 1
    /\ call' = 2
    /\ first_returned' = returned
    /\ pc' = "start"
    /\ eq_gdf_processed' = <<>>
    /\ plate_gdf_copy' = Null
    /\ grouped_eq' = <<>>
    /\ futures' = <<>>
    /\ results_list' = <<>>
    /\ returned' = Null
    /\ raised' = FALSE
    /\ callers' = [callers EXCEPT ![1] = Idle(@.log_level)]
    /\ UNCHANGED <<earthquake_gdf, plate_gdf, max_workers, fate, applied, outcome, logger,
                   fetching>>

NextTwice == Next \/ CallAgain

SpecTwice == Init /\ [][NextTwice]_vars

-----------------------------------------------------------------------------
\* The helper functions called on their own, each on arguments of a bounded set

\* most candidate plates handed to the resolver
MaxPlates == 3

\* no call of calculate_distance_to_plate is under way
NoCall ==
    /\ earthquake_gdf = [rows |-> <<>>, active |-> "utm_geometry", frame |-> "ok"]
    /\ plate_gdf = [rows |-> <<>>, crs |-> Null, frame |-> "ok"]
    /\ max_workers = 1
    /\ pc = "idle"
    /\ eq_gdf_processed = <<>>
    /\ plate_gdf_copy = Null
    /\ grouped_eq = <<>>
    /\ futures = <<>>
    /\ results_list = <<>>
    /\ returned = Null
    /\ raised = FALSE
    /\ fate = [tasks |-> {}, merge |-> "unset", set_crs |-> FALSE]
    /\ call = 1
    /\ first_returned = Null

call_state == <<earthquake_gdf, plate_gdf, max_workers, pc, eq_gdf_processed, plate_gdf_copy,
                grouped_eq, futures, results_list, returned, raised, fate, call,
                first_returned>>

\* candidate plate geometries, in the metres of a zone
CandidateGeoms ==
    { Line({Part(0, 10, 100, 10)}),
      Line({Part(10, 0, 10, 100)}),
      Line({Part(-100, -10, 100, -10)}),
      Line({Part(50, 50, 60, 50), Part(60, 50, 60, 90)}) }

\* what the resolver may be handed as earthquake_utm_geom
ResolverGeoms ==
    { Null, NaN, Invalid, Pt(0, 0), Pt(10, 10), Pt(5, 30), Pt(55, 50),
      Line({Part(0, 0, 0, 5)}) }

StrNums == <<"s1", "s2", "s3", "s4", "s5">>

\* every candidate table of n rows: index labels 0 or 1 (so labels repeat), the
\* strnum telling the position of the row
CandidateTables(n) ==
    { [i \in 1..n |-> PlateRow(idx[i], geoms[i], StrNums[i], Str("coast"))] :
          idx \in [1..n -> {0, 1}], geoms \in [1..n -> CandidateGeoms] }

InitResolver ==
    /\ \E n \in 0..MaxPlates : \E plate_gdf_proj \in CandidateTables(n) :
       \E earthquake_utm_geom \in ResolverGeoms :
           applied = [fn |-> "find_nearest_plate_info",
                      earthquake_utm_geom |-> earthquake_utm_geom,
                      plate_gdf_proj |-> plate_gdf_proj]
    /\ outcome = Null
    /\ NoCall

\* find_nearest_plate_info is called and returns or raises
Resolve ==
    /\ applied # Null
    /\ applied.fn = "find_nearest_plate_info"
    /\ outcome = Null
    /\ LET r == find_nearest_plate_info(applied.earthquake_utm_geom, applied.plate_gdf_proj)
       IN  outcome' = IF Raises(r) THEN r ELSE Return(r)
    /\ UNCHANGED <<call_state, logging, fetching, applied>>

\* the points of a zone task: positions of zone 10 north (EPSG:32610)
ZoneSites == {Pt(-123, 5), Pt(-122, 6)}

\* every subset of n rows handed to a task of zone EPSG:32610, as Submit builds it
\* the rows of a zone task: each site with its projected point, and the first
\* site with a missing (None), a float NaN and an invalid utm_geometry
ZoneRows ==
    { EqRow(site, EStr("EPSG:", 32610), ProjectGeom(site, 4326, 32610)) : site \in ZoneSites }
        \cup { EqRow(Pt(-123, 5), EStr("EPSG:", 32610), g) : g \in {Null, NaN, Invalid} }

ZoneSubsets(n) ==
    { [i \in 1..n |-> InitOutputCols(rows[i] @@ [label |-> LabelOf(i)])] :
          rows \in [1..n -> ZoneRows] }

\* plate tables handed to a zone task
\* a boundary 111 km north of the first site, and one far north
ZonePlatesNear ==
    [rows |-> <<PlateRow(0, Line({Part(-126, 6, -120, 6)}), "s1", Str("near")),
                PlateRow(1, Line({Part(-126, 30, -120, 30)}), "s2", Str("north"))>>,
     crs |-> Epsg(4326)]
\* a boundary along 12 degrees north, and one along 8 degrees south
ZonePlatesAcross ==
    [rows |-> <<PlateRow(0, Line({Part(-126, 12, -120, 12)}), "s1", Str("north")),
                PlateRow(1, Line({Part(-126, -8, -120, -8)}), "s2", Str("south"))>>,
     crs |-> Epsg(4326)]
\* a boundary along 16 degrees north, and one bent around the south-east of the
\* sites, no point of it nearer than 12 degrees to the first site
ZonePlatesBent ==
    [rows |-> <<PlateRow(0, Line({Part(-126, 16, -120, 16)}), "s1", Str("north")),
                PlateRow(1, Line({Part(-123, -7, -110, -7), Part(-110, -7, -110, 6)}),
                         "s2", Str("bent"))>>,
     crs |-> Epsg(4326)]
\* a boundary given in the metres of the zone itself, off the whole-degree grid
ZonePlatesProjected ==
    [rows |-> <<PlateRow(0, Line({Part(167500, 600500, 833500, 600500)}), "s1", Str("near")),
                PlateRow(1, Invalid, "s2", Str("broken"))>>,
     crs |-> Epsg(32610)]

ZonePlateTables == {ZonePlatesNear, ZonePlatesAcross, ZonePlatesBent, ZonePlatesProjected}

InitZoneTask ==
    /\ \E n \in 1..MaxRows : \E eq_subset_gdf \in ZoneSubsets(n) :
       \E active \in {"geometry", "utm_geometry"} : \E plates \in ZonePlateTables :
       \E reproject_fails \in BOOLEAN :
           \* a column that is the active geometry holds None where a value is
           \* missing, never a float NaN
           /\ active = "utm_geometry" =>
                  \A i \in 1..n : eq_subset_gdf[i].utm_geometry # NaN
           /\ applied = [fn |-> "_process_zone",
                        utm_epsg |-> EStr("EPSG:", 32610),
                        eq_subset_gdf |-> eq_subset_gdf,
                        active |-> active,
                        plate_gdf_copy |-> plates,
                        reproject_fails |-> reproject_fails]
    /\ outcome = Null
    /\ NoCall

\* _process_zone is called and returns
ProcessZone ==
    /\ applied # Null
    /\ applied.fn = "_process_zone"
    /\ outcome = Null
    /\ outcome' = Return(process_zone(applied.utm_epsg, applied.eq_subset_gdf, applied.active,
                                      applied.plate_gdf_copy, applied.reproject_fails))
    /\ UNCHANGED <<call_state, logging, fetching, applied>>

\* the rows handed to get_utm_info_and_reproject: longitudes and latitudes at
\* and around the ends of the ranges and of the 6-degree bands
UtmLons == {-181, -180, -175, -174, -1, 0, 5, 6, 174, 179, 180, 181}
UtmLats == {-91, -90, -1, 0, 1, 90, 91}
UtmGeometries ==
    {Null, NaN, Invalid, Line({Part(0, 0, 0, 5)})}
        \cup {Pt(lon, lat) : lon \in UtmLons, lat \in UtmLats}

InitUtmInfo ==
    /\ \E geometry \in UtmGeometries : \E source_crs \in {DEFAULT_CRS, Null} :
       \E reproject_fails \in BOOLEAN :
           applied = [fn |-> "get_utm_info_and_reproject",
                      row |-> [geometry |-> geometry],
                      source_crs |-> source_crs,
                      reproject_fails |-> reproject_fails]
    /\ outcome = Null
    /\ NoCall

\* get_utm_info_and_reproject is called and returns or raises
UtmInfo ==
    /\ applied # Null
    /\ applied.fn = "get_utm_info_and_reproject"
    /\ outcome = Null
    /\ outcome' = get_utm_info_and_reproject(applied.row, applied.source_crs,
                                             applied.reproject_fails)
    /\ UNCHANGED <<call_state, logging, fetching, applied>>

\* the ways a zone code is written: as an int, as a float, as digits, as
\* digits after 'EPSG:' or 'epsg:'
Representations(n) ==
    {EInt(n), EFloat(n), EStr("", n), EStr("EPSG:", n), EStr("epsg:", n)}

\* zone codes handed to a zone task: the zone of the points, its neighbour, a
\* number that names no CRS, each in every representation; no value, strings
\* that are no number, and a value of another type
ZoneCodes ==
    UNION {Representations(n) : n \in {32610, 32611, 99999}}
        \cup {Null, EText(""), EText("EPSG:"), EText("zone "), EOther}

InitZoneCode ==
    /\ \E n \in 1..MaxRows : \E eq_subset_gdf \in ZoneSubsets(n) :
       \E utm_epsg \in ZoneCodes :
           applied = [fn |-> "_process_zone",
                      utm_epsg |-> utm_epsg,
                      eq_subset_gdf |-> eq_subset_gdf,
                      active |-> "geometry",
                      plate_gdf_copy |-> ZonePlatesNear,
                      reproject_fails |-> FALSE]
    /\ outcome = Null
    /\ NoCall

InitApply == OneCaller /\ NoFetch /\ (InitResolver \/ InitZoneTask \/ InitZoneCode \/ InitUtmInfo)

NextApply == Resolve \/ ProcessZone \/ UtmInfo

SpecApply == InitApply /\ [][NextApply]_vars

-----------------------------------------------------------------------------
\* Two callers of calculate_distance_to_plate in two threads of one process,
\* followed through the statements that read and set the level of the module
\* logger (line 26), which both share

\* log_level arguments: the documented names, a lower-case one, an unknown
\* one, and None
LogLevels ==
    {Str("DEBUG"), Str("info"), Str("WARNING"), Str("ERROR"), Str("NONE"), Str("verbose"), Null}

\* the level of the logger when the first call begins: NOTSET, or WARNING set
\* by the application
StartLevels == {0, log_level_map["WARNING"]}

InitLogger ==
    /\ \E level \in StartLevels : logger = [level |-> level, before |-> level]
    /\ \E first \in LogLevels : \E second \in LogLevels :
          callers = [t \in Callers |-> Idle(IF t = 1 THEN first ELSE second)]
    /\ NoCall
    /\ NoFetch
    /\ applied = Null
    /\ outcome = Null

\* the call of caller t is under way
Active(t) == callers[t].at \notin {"idle", "returned"}

\* Lines 322-323: the call begins and reads the level of the logger
Enter(t) ==
    /\ callers[t].at = "idle"
    /\ callers' = [u \in Callers |->
          IF u = t
          THEN [callers[u] EXCEPT !.at = "saved", !.original_level = Num(logger.level),
                                  !.met = \E o \in Callers \ {t} : Active(o)]
          ELSE [callers[u] EXCEPT !.met = @ \/ Active(u)]]
    /\ UNCHANGED <<call_state, logger, fetching, applied, outcome>>

\* Line 324: logger.setLevel(requested_level)
SetRequested(t) ==
    /\ callers[t].at = "saved"
    /\ logger' = setLevel(logger, requested_level(callers[t].log_level))
    /\ callers' = [callers EXCEPT ![t].at = "try"]
    /\ UNCHANGED <<call_state, fetching, applied, outcome>>

\* Lines 330-494: the try block ends, by a return or in the except clause
\* (line 332 raises for a log_level that is no str); the level is not touched
TryBlock(t) ==
    /\ callers[t].at = "try"
    /\ callers' = [callers EXCEPT ![t].at = "finally",
                                  ![t].via = IF UpperRaises(callers[t].log_level)
                                             THEN "except" ELSE "return"]
    /\ UNCHANGED <<call_state, logger, fetching, applied, outcome>>

\* Lines 496-511: the finally block sets the level read on entry; the call returns
Finally(t) ==
    /\ callers[t].at = "finally"
    /\ logger' = RestoreLevel(logger, callers[t].original_level.v)
    /\ callers' = [callers EXCEPT ![t].at = "returned"]
    /\ UNCHANGED <<call_state, fetching, applied, outcome>>

NextLogger ==
    \/ \E t \in Callers : Enter(t)
    \/ \E t \in Callers : SetRequested(t)
    \/ \E t \in Callers : TryBlock(t)
    \/ \E t \in Callers : Finally(t)

SpecLogger == InitLogger /\ [][NextLogger]_vars

-----------------------------------------------------------------------------
\* fetch_seismic_data called up to MaxCalls times, one call after the other,
\* over the same range and stations and the same data_dir

InitSeismic ==
    /\ OneCaller
    /\ NoCall
    /\ applied = Null
    /\ outcome = Null
    /\ data_dir = {}
    /\ \E station_requests \in RequestLists :
       \E start_ym \in FirstMonth..(FirstMonth + MaxMonths - 1) :
       \E end_ym \in start_ym..(FirstMonth + MaxMonths - 1) :
           seismic = NoSeismicCall(station_requests, start_ym, end_ym)
    /\ DATA_DIR = {}
    /\ quakes = NoQuakeCall

\* the months of the range (line 250)
SeismicMonths ==
    month_year_iter((seismic.start_ym % 12) + 1, seismic.start_ym \div 12,
                    (seismic.end_ym % 12) + 1, seismic.end_ym \div 12)

\* Lines 219-223: Client(client_name) raises and the call returns []
FetchSeismicNoClient ==
    /\ seismic.at = "idle"
    /\ seismic.n < MaxCalls
    /\ seismic' = [seismic EXCEPT !.n = @ + 1, !.tasks_to_run = {}, !.pending = {},
                                  !.resubmitted = {}]
    /\ UNCHANGED <<call_state, logging, applied, outcome, data_dir, DATA_DIR, quakes>>

\* Lines 185-290: the call fetches the inventory and submits the tasks; with
\* no task to run it returns at once (lines 316-323). resubmitted keeps the
\* station-months an earlier call saved that are among the tasks again
FetchSeismicData ==
    /\ seismic.at = "idle"
    /\ seismic.n < MaxCalls
    /\ \E force_download \in BOOLEAN : \E fetched \in BOOLEAN :
          LET station_inventory == StationInventory(seismic.station_requests, fetched)
              tasks_to_run == TasksToRun(data_dir, seismic.station_requests, SeismicMonths,
                                         station_inventory, force_download)
          IN  seismic' = [seismic EXCEPT !.n = @ + 1,
                                         !.at = IF tasks_to_run # {} THEN "pool" ELSE "idle",
                                         !.force_download = force_download,
                                         !.station_inventory = station_inventory,
                                         !.tasks_to_run = tasks_to_run,
                                         !.pending = tasks_to_run,
                                         !.resubmitted =
                                             {s \in seismic.saved : s.task \in tasks_to_run}]
    /\ UNCHANGED <<call_state, logging, applied, outcome, data_dir, DATA_DIR, quakes>>

\* Lines 93-151: one submitted task runs in its thread
DownloadStationMonth ==
    /\ seismic.at = "pool"
    /\ \E task \in seismic.pending : \E status \in SeismicStatuses :
          /\ data_dir' = download_single_station_month(data_dir, task,
                                                       seismic.station_inventory, status)
          /\ seismic' = [seismic EXCEPT
                 !.pending = @ \ {task},
                 !.saved = IF status = "success"
                           THEN @ \cup {[task |-> task,
                                         coord_str |-> coord_str(seismic.station_inventory,
                                                                 task.request_tuple[1],
                                                                 task.request_tuple[2])]}
                           ELSE @]
    /\ UNCHANGED <<call_state, logging, applied, outcome, DATA_DIR, quakes>>

\* Lines 293-323: every future completed, the call returns the file list
FetchSeismicReturn ==
    /\ seismic.at = "pool"
    /\ seismic.pending = {}
    /\ seismic' = [seismic EXCEPT !.at = "idle"]
    /\ UNCHANGED <<call_state, logging, applied, outcome, data_dir, DATA_DIR, quakes>>

NextSeismic ==
    \/ FetchSeismicNoClient
    \/ FetchSeismicData
    \/ DownloadStationMonth
    \/ FetchSeismicReturn

SpecSeismic == InitSeismic /\ [][NextSeismic]_vars

-----------------------------------------------------------------------------
\* fetch_and_load_earthquake_data called up to MaxCalls times, one call after
\* the other, each over a range of days of its own

InitQuakes ==
    /\ OneCaller
    /\ NoCall
    /\ applied = Null
    /\ outcome = Null
    /\ NoFetch

\* Lines 124-126: start_dt after end_dt, the call returns None
FetchQuakesBadRange ==
    /\ quakes.at = "idle"
    /\ quakes.n < MaxCalls
    /\ \E start_dt \in Days : \E end_dt \in Days :
          /\ start_dt > end_dt
          /\ quakes' = [quakes EXCEPT !.n = @ + 1, !.start_dt = start_dt, !.end_dt = end_dt,
                                      !.dates_to_download = {}, !.pending = {},
                                      !.earlier = quakes.status]
    /\ UNCHANGED <<call_state, logging, applied, outcome, data_dir, seismic, DATA_DIR>>

\* Lines 110-155: the call lists the days to download and submits them; with
\* none it goes on to load the files (lines 174-221)
FetchAndLoad ==
    /\ quakes.at = "idle"
    /\ quakes.n < MaxCalls
    /\ \E start_dt \in Days : \E end_dt \in Days : \E force_download \in BOOLEAN :
          /\ start_dt <= end_dt
          /\ LET dates_to_download == DatesToDownload(DATA_DIR, start_dt, end_dt, force_download)
             IN  quakes' = [quakes EXCEPT
                     !.n = @ + 1,
                     !.at = IF dates_to_download # {} THEN "pool" ELSE "idle",
                     !.start_dt = start_dt,
                     !.end_dt = end_dt,
                     !.force_download = force_download,
                     !.forced = @ \/ force_download,
                     !.dates_to_download = dates_to_download,
                     !.pending = dates_to_download,
                     !.earlier = quakes.status]
    /\ UNCHANGED <<call_state, logging, applied, outcome, data_dir, seismic, DATA_DIR>>

\* Lines 33-77: one submitted day runs in its thread
DownloadSingleDay ==
    /\ quakes.at = "pool"
    /\ \E current_date \in quakes.pending : \E response \in Responses :
          /\ DATA_DIR' = download_single_day(DATA_DIR, current_date, response)
          /\ quakes' = [quakes EXCEPT
                 !.pending = @ \ {current_date},
                 !.status[current_date] = [status |-> DayStatus(response),
                                           response |-> response]]
    /\ UNCHANGED <<call_state, logging, applied, outcome, data_dir, seismic>>

\* Lines 158-221: every future completed, the files are loaded, the call returns
FetchQuakesReturn ==
    /\ quakes.at = "pool"
    /\ quakes.pending = {}
    /\ quakes' = [quakes EXCEPT !.at = "idle"]
    /\ UNCHANGED <<call_state, logging, applied, outcome, data_dir, seismic, DATA_DIR>>

NextQuakes ==
    \/ FetchQuakesBadRange
    \/ FetchAndLoad
    \/ DownloadSingleDay
    \/ FetchQuakesReturn

SpecQuakes == InitQuakes /\ [][NextQuakes]_vars

-----------------------------------------------------------------------------
\* Vocabulary of the properties

Done == pc = "done"
Returned == returned # Null

Cells(row) ==
    <<row.distance_to_plate, row.nearest_plate_strnum, row.nearest_plate_platecode,
      row.nearest_plate_geogdesc, row.nearest_plate_boundary_t>>
Identity(row) ==
    <<row.nearest_plate_strnum, row.nearest_plate_platecode,
      row.nearest_plate_geogdesc, row.nearest_plate_boundary_t>>
AllNull(row) == \A c \in Range(Cells(row)) : isna(c)
AllSet(row) == \A c \in Range(Cells(row)) : notna(c)

Labels(rows) == [i \in 1..Len(rows) |-> rows[i].label]
HasLabel(rows, label) == \E i \in 1..Len(rows) : rows[i].label = label
RowAt(rows, label) == rows[CHOOSE i \in 1..Len(rows) : rows[i].label = label]

\* the call went through the pool and the merge step
Merged == Done /\ Returned /\ futures # <<>> /\ AllCollected

\* the recorded fate of the task of a zone
TaskFate(utm_epsg) == (CHOOSE e \in fate.tasks : e.utm_epsg = utm_epsg).f

\* the zone code is no zone: it does not parse, or names no CRS
BadZoneCode(utm_epsg) ==
    LET parsed == ParseEpsg(utm_epsg) IN parsed = Null \/ ~KnownCrs(parsed.v)

\* the task of futures[i] failed: it raised, or returned its subset unprocessed
ZoneFailed(i) ==
    \/ futures[i].exception
    \/ BadZoneCode(futures[i].utm_epsg)
    \/ ZoneCandidates(ParseEpsg(futures[i].utm_epsg).v, futures[i].eq_subset_gdf,
                      earthquake_gdf.active, plate_gdf_copy,
                      TaskFate(futures[i].utm_epsg) = "reproject") = <<>>

\* What the rows of the zone utm_epsg get when rows is the whole earthquake table:
\* the zone task applied to the zone's rows alone, under the zone's recorded fate
ZoneAlone(rows, utm_epsg) ==
    LET copy == [i \in 1..Len(rows) |-> InitOutputCols(rows[i])]
        subset == GroupRows(DropNaEpsg(copy), utm_epsg)
    IN  IF TaskFate(utm_epsg) = "raise" THEN subset
        ELSE process_zone(utm_epsg, subset, earthquake_gdf.active, PlateCopy,
                          TaskFate(utm_epsg) = "reproject")

\* the earthquake table without the rows that Drop selects
Without(rows, Drop(_)) == LET Keep(row) == ~Drop(row) IN SelectSeq(rows, Keep)

-----------------------------------------------------------------------------
\* C1: whatever the input (empty earthquake table, empty plate table, rows with
\* a null utm_epsg, failing zones, an exception in the merge step), the returned
\* table has exactly as many rows as the input earthquake table.
C1_RowCount ==
    Done => /\ Returned
            /\ Len(returned.rows) = Len(earthquake_gdf.rows)

\* a call that lost a zone to an exception, had a row without utm_epsg and met
\* an exception in the merge step
C1_Witness ==
    /\ Merged
    /\ fate.merge = "concat"
    /\ \E i \in 1..Len(earthquake_gdf.rows) : isna(earthquake_gdf.rows[i].utm_epsg)
    /\ Len(returned.rows) = MaxRows

\* C2 as claimed: in every returned row the five result fields are all null or
\* all set.
C2_AllOrNothing ==
    Done /\ Returned /\ ValidInputs => \A i \in 1..Len(returned.rows) :
                            AllNull(returned.rows[i]) \/ AllSet(returned.rows[i])

\* C2 as amended: no row has an identity without a distance, and a row with a
\* distance carries the four attributes of one plate row as they stand in the
\* plate table (null where that plate's attribute is null).
C2_DistanceWithPlateAttributes ==
    Done /\ Returned /\ ValidInputs =>
        \A i \in 1..Len(returned.rows) :
            LET row == returned.rows[i]
            IN  IF isna(row.distance_to_plate) THEN AllNull(row)
                ELSE \E j \in 1..Len(plate_gdf.rows) :
                        Identity(row) = <<plate_gdf.rows[j].strnum, plate_gdf.rows[j].platecode,
                                          plate_gdf.rows[j].geogdesc, plate_gdf.rows[j].boundary_t>>

\* a resolved row whose nearest plate has no geogdesc, beside an unresolved row
C2_Witness ==
    /\ Merged
    /\ \E i \in 1..Len(returned.rows) :
          /\ notna(returned.rows[i].distance_to_plate)
          /\ notna(returned.rows[i].nearest_plate_strnum)
          /\ isna(returned.rows[i].nearest_plate_geogdesc)
    /\ \E i \in 1..Len(returned.rows) : AllNull(returned.rows[i])

\* C3: when the task of exactly one zone fails, the rows of that zone have null
\* result fields and every row of every other zone has the results it has when
\* the failing zone's rows are not in the table.
C3_FailureContained ==
    Merged /\ fate.merge # "concat" /\ Cardinality({i \in 1..Len(futures) : ZoneFailed(i)}) = 1 =>
        LET bad == CHOOSE i \in 1..Len(futures) : ZoneFailed(i)
            InBad(row) == notna(row.utm_epsg) /\ GroupKey(row.utm_epsg) = futures[bad].utm_epsg
            rest == Without(earthquake_gdf.rows, InBad)
        IN  /\ \A i \in 1..Len(returned.rows) :
                   InBad(returned.rows[i]) => AllNull(returned.rows[i])
            /\ \A j \in 1..Len(futures) : j # bad =>
                   LET alone == ZoneAlone(rest, futures[j].utm_epsg)
                   IN  /\ alone # <<>>
                       /\ \A r \in 1..Len(alone) :
                              Cells(RowAt(returned.rows, alone[r].label)) = Cells(alone[r])

\* one zone failed and a row of another zone is resolved
C3_Witness ==
    /\ Merged
    /\ fate.merge # "concat"
    /\ Cardinality({i \in 1..Len(futures) : ZoneFailed(i)}) = 1
    /\ \E i \in 1..Len(futures) : futures[i].exception
    /\ \E i \in 1..Len(returned.rows) : AllSet(returned.rows[i])

\* C4: no failure inside a zone task leaves the call as an exception: the call
\* returns a table whatever tasks raise or return their subsets unprocessed.
C4_NoExceptionEscapes ==
    /\ ~raised
    /\ Done => Returned /\ returned.k = "frame"

\* every task of a call with MaxRows zones raised, and the call returned
C4_Witness ==
    /\ Merged
    /\ Len(futures) = MaxRows
    /\ \A i \in 1..Len(futures) : futures[i].exception

\* C5: after the merge, the result fields of the output row with index label l
\* are those of the collected row with label l, wherever that row stands in the
\* collected subsets; rows no zone returned keep null result fields; the other
\* fields are those of the input row with label l.
C5_MergedByLabel ==
    Merged /\ fate.merge # "concat" =>
        LET final == Concat(results_list)
        IN  \A i \in 1..Len(returned.rows) :
                LET row == returned.rows[i]
                    input == RowAt(earthquake_gdf.rows, row.label)
                IN  /\ <<row.geometry, row.utm_epsg, row.utm_geometry>> =
                           <<input.geometry, input.utm_epsg, input.utm_geometry>>
                    /\ IF HasLabel(final, row.label)
                       THEN Cells(row) = Cells(RowAt(final, row.label))
                       ELSE AllNull(row)

\* the collected rows stand in another order than the input rows, one of them
\* resolved, and one zone returned nothing
C5_Witness ==
    /\ Merged
    /\ fate.merge = "none"
    /\ Len(results_list) < Len(futures)
    /\ LET final == Concat(results_list)
       IN  /\ \E i \in 1..Len(final) : final[i].label # earthquake_gdf.rows[i].label
           /\ \E i \in 1..Len(final) : AllSet(final[i])

\* C6: in whatever order the zone tasks complete, the returned rows carry the
\* index labels of the input rows, in the input order.
C6_InputOrderKept ==
    Done /\ Returned => Labels(returned.rows) = Labels(earthquake_gdf.rows)

\* the zone submitted last was collected first
C6_Witness ==
    /\ Merged
    /\ Len(results_list) = MaxRows
    /\ results_list[1] = futures[Len(futures)].result
    /\ Labels(Concat(results_list)) # Labels(earthquake_gdf.rows)

\* C7: the second of two calls on the same tables returns the result columns the
\* first returned, whatever the completion order of the tasks in either call.
C7_SameColumnsTwice ==
    call = 2 /\ Done =>
        /\ Returned
        /\ Len(returned.rows) = Len(first_returned.rows)
        /\ IF ValidInputs
           THEN \A i \in 1..Len(returned.rows) :
                    Cells(returned.rows[i]) = Cells(first_returned.rows[i])
           ELSE returned = first_returned

\* the second call collected two subsets, the later submitted first, and
\* resolved a row
C7_Witness ==
    /\ call = 2
    /\ Merged
    /\ Len(results_list) = MaxRows
    /\ results_list[1] = futures[Len(futures)].result
    /\ \E i \in 1..Len(returned.rows) : notna(returned.rows[i].distance_to_plate)

PrefilterEmpty(i) ==
    /\ ~futures[i].exception
    /\ ~BadZoneCode(futures[i].utm_epsg)
    /\ TaskFate(futures[i].utm_epsg) = "none"
    /\ LET IsValidRow(row) == is_valid(row.geometry)
           plate_gdf_proj == SelectSeq(ProjectPlates(plate_gdf_copy,
                                                     ParseEpsg(futures[i].utm_epsg).v), IsValidRow)
           eq_bounds == total_bounds(futures[i].eq_subset_gdf, earthquake_gdf.active)
       IN  /\ plate_gdf_proj # <<>>
           /\ eq_bounds # Null
           /\ FilterByExtent(plate_gdf_proj, eq_bounds.b) = <<>>

\* C10: a zone task whose buffered-extent pre-filter keeps no plate returns every
\* point of the zone unresolved.
C10_NoCandidatesNoMatch ==
    \A i \in 1..Len(futures) :
        futures[i].state \in {"done", "collected"} /\ PrefilterEmpty(i) =>
            /\ Labels(futures[i].result) = Labels(futures[i].eq_subset_gdf)
            /\ \A r \in 1..Len(futures[i].result) : AllNull(futures[i].result[r])

\* a task with MaxRows points and valid plates, none within the buffered extent
C10_Witness ==
    \E i \in 1..Len(futures) :
        /\ futures[i].state = "collected"
        /\ PrefilterEmpty(i)
        /\ Len(futures[i].result) = MaxRows
        /\ \A r \in 1..Len(futures[i].result) : is_valid(futures[i].result[r].utm_geometry)

-----------------------------------------------------------------------------
\* Vocabulary of the properties of the resolver called on its own

ResolverCalled ==
    applied # Null /\ applied.fn = "find_nearest_plate_info" /\ outcome # Null

\* the four attributes of a plate row, in the order of the identity fields
PlateIdentity(plate) == <<plate.strnum, plate.platecode, plate.geogdesc, plate.boundary_t>>

\* the least distance from the geometry to any candidate
MinDistance(geom, candidates) ==
    SetMin({Distance(candidates[i].geometry, geom) : i \in 1..Len(candidates)})

\* the candidates at the least distance
Nearest(geom, candidates) ==
    {i \in 1..Len(candidates) :
        Distance(candidates[i].geometry, geom) = MinDistance(geom, candidates)}

\* a valid point was resolved against at least one candidate
PointAgainstCandidates ==
    /\ ResolverCalled
    /\ IsPoint(applied.earthquake_utm_geom)
    /\ applied.plate_gdf_proj # <<>>

\* C11 as claimed: a valid point resolved against a non-empty candidate set gets
\* the least distance over all candidates and the four attributes of one
\* candidate at that distance, also when candidates share an index label.
C11_MinimumOverCandidates ==
    PointAgainstCandidates =>
        /\ outcome.k = "returned"
        /\ outcome.v.distance_to_plate =
               Num(MinDistance(applied.earthquake_utm_geom, applied.plate_gdf_proj))
        /\ \E j \in Nearest(applied.earthquake_utm_geom, applied.plate_gdf_proj) :
               Identity(outcome.v) = PlateIdentity(applied.plate_gdf_proj[j])

\* the first nearest candidate shares its index label with another candidate and
\* the point comes back with every field null
C11_Witness ==
    /\ PointAgainstCandidates
    /\ LET cands == applied.plate_gdf_proj
           first == SetMin(Nearest(applied.earthquake_utm_geom, cands))
       IN  \E j \in 1..Len(cands) : j # first /\ cands[j].idx = cands[first].idx
    /\ outcome = Return(NullResult)

\* two or more candidates are at the least distance from the valid point
Tie ==
    /\ PointAgainstCandidates
    /\ Cardinality(Nearest(applied.earthquake_utm_geom, applied.plate_gdf_proj)) >= 2

\* C12 as claimed: when two or more candidates are at the same least distance the
\* resolver returns the first of them in row order, and never the null result.
C12_FirstOfTies ==
    Tie =>
        LET cands == applied.plate_gdf_proj
            first == SetMin(Nearest(applied.earthquake_utm_geom, cands))
        IN  /\ outcome.k = "returned"
            /\ notna(outcome.v.distance_to_plate)
            /\ Identity(outcome.v) = PlateIdentity(cands[first])

\* two candidates at the same least distance carry the same index label and the
\* resolver returned the null result
C12_Witness ==
    /\ Tie
    /\ LET cands == applied.plate_gdf_proj
           near == Nearest(applied.earthquake_utm_geom, cands)
       IN  \E i, j \in near : i # j /\ cands[i].idx = cands[j].idx /\ i = SetMin(near)
    /\ outcome = Return(NullResult)

\* With distinct index labels the first of the tied candidates is returned.
C12_FirstOfTiesDistinctLabels ==
    Tie /\ (\A i, j \in 1..Len(applied.plate_gdf_proj) :
                i # j => applied.plate_gdf_proj[i].idx # applied.plate_gdf_proj[j].idx) =>
        /\ outcome.k = "returned"
        /\ Identity(outcome.v) =
               PlateIdentity(applied.plate_gdf_proj[
                   SetMin(Nearest(applied.earthquake_utm_geom, applied.plate_gdf_proj))])

\* the point lies on the line geometry
OnGeometry(pt, g) ==
    \E p \in g.parts : p.x1 <= pt.x /\ pt.x <= p.x2 /\ p.y1 <= pt.y /\ pt.y <= p.y2

\* the resolver reported a distance for a valid point
DistanceReported ==
    /\ PointAgainstCandidates
    /\ outcome.k = "returned"
    /\ notna(outcome.v.distance_to_plate)

-----------------------------------------------------------------------------
\* Vocabulary of the properties of the zone task called on its own

\* _process_zone was called and has returned
ZoneTaskReturned == applied # Null /\ applied.fn = "_process_zone" /\ outcome # Null

\* the same, with a zone code that names a CRS (line 158 passed)
ZoneTaskCalled ==
    /\ ZoneTaskReturned
    /\ ParseEpsg(applied.utm_epsg) # Null
    /\ KnownCrs(ParseEpsg(applied.utm_epsg).v)

\* every valid plate of the task in the CRS of the zone (lines 178-191)
ValidProjectedPlates ==
    LET IsValidRow(row) == is_valid(row.geometry)
    IN  SelectSeq(ProjectPlates(applied.plate_gdf_copy, ParseEpsg(applied.utm_epsg).v),
                  IsValidRow)

\* C14 as claimed: every distance a zone task reports is the least distance over
\* all valid projected plates of the zone, not only over those that passed the
\* buffered-extent pre-filter.
C14_PrefilterKeepsNearest ==
    ZoneTaskCalled /\ ~applied.reproject_fails =>
        \A i \in 1..Len(outcome.v) :
            notna(outcome.v[i].distance_to_plate) =>
                outcome.v[i].distance_to_plate =
                    Num(MinDistance(outcome.v[i].utm_geometry, ValidProjectedPlates))

\* the extent is taken from the projected points, the plate 1221 km north of
\* the first site is dropped by the pre-filter and the site is reported 1332 km
\* from the bent plate
C14_Witness ==
    /\ ZoneTaskCalled
    /\ applied.active = "utm_geometry"
    /\ applied.plate_gdf_copy = ZonePlatesBent
    /\ \E i \in 1..Len(outcome.v) :
          /\ outcome.v[i].geometry = Pt(-123, 5)
          /\ outcome.v[i].nearest_plate_strnum = Str("s2")
          /\ outcome.v[i].distance_to_plate = Num(1332000)
          /\ MinDistance(outcome.v[i].utm_geometry, ValidProjectedPlates) = 1221000

-----------------------------------------------------------------------------
\* the row has the five output columns
HasOutputCols(row) == \A i \in 1..Len(OUTPUT_COLS) : OUTPUT_COLS[i] \in DOMAIN row

\* C15 as claimed: when an argument fails the input validation the call returns
\* the rows of the earthquake table as they came, with the five result columns
\* added and null.
C15_InvalidInputAnnotated ==
    Done /\ ~ValidInputs =>
        /\ Returned
        /\ Len(returned.rows) = Len(earthquake_gdf.rows)
        /\ \A i \in 1..Len(returned.rows) :
               /\ HasOutputCols(returned.rows[i])
               /\ returned.rows[i] = InitOutputCols(earthquake_gdf.rows[i])

\* the plate table lacks a required column and the earthquake rows came back
\* without any result column
C15_Witness ==
    /\ Done
    /\ plate_gdf.frame = "missing_columns"
    /\ Returned
    /\ Len(returned.rows) = MaxRows
    /\ returned.rows = earthquake_gdf.rows
    /\ \A i \in 1..Len(returned.rows) : ~HasOutputCols(returned.rows[i])

-----------------------------------------------------------------------------
\* the resolver was handed something that is no valid point: None, a float NaN,
\* a point with a coordinate that is not finite, or a geometry of another type
DegenerateGeometry ==
    /\ ResolverCalled
    /\ ~IsPoint(applied.earthquake_utm_geom)

\* C16 as claimed: for a degenerate point geometry the resolver returns the
\* all-null result and raises nothing.
C16_DegenerateIsNull ==
    DegenerateGeometry => outcome = Return(NullResult)

\* a float NaN in the place of the geometry: AttributeError leaves the resolver
C16_Witness ==
    /\ DegenerateGeometry
    /\ applied.earthquake_utm_geom = NaN
    /\ applied.plate_gdf_proj # <<>>
    /\ outcome = Raise("AttributeError")

\* a line in the place of the point is given a distance and a plate
C16_WitnessLine ==
    /\ DegenerateGeometry
    /\ IsLine(applied.earthquake_utm_geom)
    /\ outcome.k = "returned"
    /\ notna(outcome.v.distance_to_plate)

\* None and a point whose coordinates are not finite do get the null result.
C16_NoneAndNonFiniteAreNull ==
    ResolverCalled /\ applied.earthquake_utm_geom \in {Null, Invalid} =>
        outcome = Return(NullResult)

-----------------------------------------------------------------------------
\* Vocabulary of the properties of get_utm_info_and_reproject called on its own

UtmInfoCalled ==
    applied # Null /\ applied.fn = "get_utm_info_and_reproject" /\ outcome # Null

\* the row holds a point with -180 <= lon <= 180 and -90 <= lat <= 90
InRangePoint ==
    /\ IsPoint(applied.row.geometry)
    /\ -180 <= applied.row.geometry.x /\ applied.row.geometry.x <= 180
    /\ -90 <= applied.row.geometry.y /\ applied.row.geometry.y <= 90

\* the reprojection of the row can succeed: a source CRS is given and to_crs
\* does not raise
Reprojects == applied.source_crs # Null /\ ~applied.reproject_fails

\* out is the return of the zone code the claim describes for (lon, lat): the
\* band is in 1..60, it is the 6-degree band lon lies in (180 counted as -180),
\* and the code is 32600 + band north of or on the equator, 32700 + band south
ZoneCodeReturned(out, lon, lat) ==
    LET band == (((lon + 180) \div 6) % 60) + 1
        wrapped == IF lon = 180 THEN -180 ELSE lon
    IN  /\ out.k = "returned"
        /\ band \in 1..60
        /\ -180 + 6 * (band - 1) <= wrapped /\ wrapped < -180 + 6 * band
        /\ out.v[2] = EStr("EPSG:", (IF lat >= 0 THEN UtmNorthBase ELSE UtmSouthBase) + band)

\* C17 as claimed: for a point in range the function computes the band and
\* returns the zone code EPSG:(32600 + band) or EPSG:(32700 + band).
C17_ZoneOfPoint ==
    UtmInfoCalled /\ InRangePoint /\ Reprojects =>
        ZoneCodeReturned(outcome, applied.row.geometry.x, applied.row.geometry.y)

\* the point at lon 180 on the equator, a source CRS given: NameError leaves the
\* function
C17_Witness ==
    /\ UtmInfoCalled
    /\ applied.row.geometry = Pt(180, 0)
    /\ Reprojects
    /\ outcome = Raise("NameError")

\* With every name its body reads bound in the module, the function returns the
\* zone code of C17.
C17_ZoneOfPointNamesBound ==
    UtmInfoCalled /\ InRangePoint /\ Reprojects =>
        ZoneCodeReturned(utm_info_under(BodyNames, applied.row, applied.source_crs,
                                        applied.reproject_fails),
                         applied.row.geometry.x, applied.row.geometry.y)

\* out is a return of three values all set or all None, None exactly when the
\* row holds no point in range or the reprojection fails
AllOrNone(out) ==
    /\ out.k = "returned"
    /\ IF InRangePoint /\ Reprojects
       THEN /\ \A i \in 1..3 : notna(out.v[i])
            /\ IsPoint(out.v[3])
       ELSE out.v = NoneTriple

\* C18 as claimed: the function returns zone string, EPSG string and projected
\* geometry all set for a valid point, and all three None for a null or
\* non-point geometry, a point out of range, or a failed reprojection.
C18_AllOrNone ==
    UtmInfoCalled => AllOrNone(outcome)

\* a row without geometry: NameError leaves the function instead of three None
C18_Witness ==
    /\ UtmInfoCalled
    /\ applied.row.geometry = Null
    /\ outcome = Raise("NameError")

\* With every name its body reads bound in the module, the return is all set or
\* all None as C18 says.
C18_AllOrNoneNamesBound ==
    UtmInfoCalled =>
        AllOrNone(utm_info_under(BodyNames, applied.row, applied.source_crs,
                                 applied.reproject_fails))

-----------------------------------------------------------------------------
\* the CRS of the plates handed to the zone task is the CRS of the zone
SameCrs ==
    /\ ZoneTaskCalled
    /\ applied.plate_gdf_copy.crs # Null
    /\ applied.plate_gdf_copy.crs.code = ParseEpsg(applied.utm_epsg).v

\* C19: when the plates are already in the CRS of the zone, the plates the task
\* works on are a copy of the input plates, geometries and attributes as they
\* came, whether or not to_crs would fail; the filters that follow act on that
\* copy, and the task's results are the distances to the untransformed plates.
C19_SameCrsCopy ==
    SameCrs =>
        LET code == ParseEpsg(applied.utm_epsg).v
            plates == applied.plate_gdf_copy
            IsValidRow(row) == is_valid(row.geometry)
            eq_bounds == total_bounds(applied.eq_subset_gdf, applied.active)
            \* no point with a geometry: no extent, no candidate
            kept == IF eq_bounds = Null THEN <<>>
                    ELSE FilterByExtent(SelectSeq(plates.rows, IsValidRow), eq_bounds.b)
        IN  /\ ProjectPlates(plates, code) = plates.rows
            /\ ProjectedObject(plates, code) = CopyOf(<<"plate_gdf_copy">>)
            /\ ProjectedObject(plates, code) # <<"plate_gdf_copy">>
            /\ ZoneCandidates(code, applied.eq_subset_gdf, applied.active, plates,
                              applied.reproject_fails) = kept
            /\ outcome.v = IF kept = <<>> THEN applied.eq_subset_gdf
                           ELSE ApplyResolver(applied.eq_subset_gdf, kept)

\* plates given in the metres of the zone, off the whole-degree grid, one of
\* them not valid: the task dropped the invalid one and reported the first site
\* 45500 m from the other, the distance to its geometry as it came
C19_Witness ==
    /\ SameCrs
    /\ applied.plate_gdf_copy = ZonePlatesProjected
    /\ \E i \in 1..Len(applied.plate_gdf_copy.rows) :
           ~is_valid(applied.plate_gdf_copy.rows[i].geometry)
    /\ \E i \in 1..Len(outcome.v) :
           /\ outcome.v[i].geometry = Pt(-123, 5)
           /\ outcome.v[i].distance_to_plate = Num(45500)
           /\ outcome.v[i].nearest_plate_strnum = Str("s1")

\* C20: no step of a call to calculate_distance_to_plate changes the caller's
\* earthquake_gdf or plate_gdf, whichever way the call ends: earthquake_gdf
\* gains no column and no cell of it changes, plate_gdf keeps its CRS (an
\* absent one too) and its geometries.
C20_InputsUnchanged ==
    [][earthquake_gdf' = earthquake_gdf /\ plate_gdf' = plate_gdf]_vars

\* a call that ended with results merged into the working copy and the default
\* CRS assumed for the plates, while the caller's table has no output column
\* and its plates still no CRS
C20_Witness ==
    /\ Merged
    /\ fate.merge = "none"
    /\ \E i \in 1..Len(returned.rows) : notna(returned.rows[i].distance_to_plate)
    /\ \E i \in 1..Len(futures) : futures[i].exception
    /\ \A i \in 1..Len(earthquake_gdf.rows) :
          "distance_to_plate" \notin DOMAIN earthquake_gdf.rows[i]
    /\ plate_gdf.crs = Null
    /\ plate_gdf_copy.crs = DEFAULT_CRS

\* a zone task ends in this step
TaskEnds(i) ==
    /\ i \in 1..Len(futures)
    /\ futures[i].state = "running"
    /\ futures'[i].state = "done"

\* every group was submitted and every task has returned or raised
EveryTaskOver ==
    /\ Len(futures) = Len(grouped_eq)
    /\ \A i \in 1..Len(futures) : futures[i].state \in {"done", "collected"}

\* C21: once the pool is open the output table is written by the merge step
\* alone, the merge step starts only when every submitted zone task has
\* returned or raised, and a zone task that ends writes neither the output
\* table nor the plates nor the collected results nor another task's record.
C21_OnlyMergeWrites ==
    [][ /\ pc = "pool" /\ (eq_gdf_processed' # eq_gdf_processed \/ returned' # returned)
            => EveryTaskOver /\ pc' = "done"
        /\ \A i \in 1..MaxRows : TaskEnds(i) =>
              /\ eq_gdf_processed' = eq_gdf_processed
              /\ plate_gdf_copy' = plate_gdf_copy
              /\ results_list' = results_list
              /\ returned' = returned
              /\ \A j \in 1..Len(futures) : j # i => futures'[j] = futures[j]
      ]_vars

\* two zones, one whose task raised and one whose results the merge wrote
\* into the output table
C21_Witness ==
    /\ Merged
    /\ Len(futures) = 2
    /\ \E i \in 1..Len(futures) : futures[i].exception
    /\ \E i \in 1..Len(futures) : ~futures[i].exception /\ futures[i].result # <<>>
    /\ eq_gdf_processed # InitialCopy

\* the call went past the checks of lines 334-398 and opened the pool
PoolOpened == pc # "start" /\ ValidInputs /\ grouped_eq # <<>> /\ max_workers > 0

\* the tasks a row of the caller's table was submitted in
TasksOf(row) ==
    {i \in 1..Len(futures) :
        \E r \in 1..Len(futures[i].eq_subset_gdf) :
            futures[i].eq_subset_gdf[r].label = row.label}

\* C22: a call that opens the pool submits one zone task per distinct
\* non-null utm_epsg value, in the order of the groups; once all are submitted
\* every row with a non-null utm_epsg is in exactly one task, that of its own
\* value, and no row without one is in any; at no time do more than
\* max_workers tasks run.
C22_OneTaskPerZone ==
    /\ Cardinality(Running) <= max_workers
    /\ PoolOpened =>
          /\ Len(futures) <= Len(grouped_eq)
          /\ \A i \in 1..Len(futures) : futures[i].utm_epsg = grouped_eq[i]
          /\ \A i, j \in 1..Len(futures) : i # j => futures[i].utm_epsg # futures[j].utm_epsg
          /\ Range(grouped_eq) =
                {GroupKey(earthquake_gdf.rows[r].utm_epsg) :
                    r \in {q \in 1..Len(earthquake_gdf.rows) :
                              notna(earthquake_gdf.rows[q].utm_epsg)}}
          /\ Len(futures) = Len(grouped_eq) =>
                \A r \in 1..Len(earthquake_gdf.rows) :
                    LET row == earthquake_gdf.rows[r]
                    IN  IF isna(row.utm_epsg) THEN TasksOf(row) = {}
                        ELSE /\ Cardinality(TasksOf(row)) = 1
                             /\ \A i \in TasksOf(row) :
                                    futures[i].utm_epsg = GroupKey(row.utm_epsg)

\* two zones and one worker: one task runs while the other waits
C22_Witness ==
    /\ PoolOpened
    /\ max_workers = 1
    /\ Len(futures) = 2
    /\ Cardinality(Running) = 1
    /\ Pending # {}

\* two rows of the same zone in one task, every worker allowed busy
C22_WitnessSharedZone ==
    /\ PoolOpened
    /\ Len(earthquake_gdf.rows) = 2
    /\ Len(futures) = 1
    /\ Len(futures[1].eq_subset_gdf) = 2

\* line 379 was reached: valid, non-empty tables and plates without a CRS
NoPlateCrs ==
    /\ ValidInputs
    /\ earthquake_gdf.rows # <<>>
    /\ plate_gdf.rows # <<>>
    /\ plate_gdf.crs = Null

\* C23: when plate_gdf has no CRS the working copy of the plates carries
\* EPSG:4326, no other CRS, from before the first zone task is submitted and
\* for as long as the call lasts; when set_crs fails no zone task is ever
\* submitted and every row of the input is returned with null result fields.
C23_DefaultPlateCrs ==
    NoPlateCrs =>
        /\ pc = "pool" \/ futures # <<>> => plate_gdf_copy.crs = DEFAULT_CRS
        /\ plate_gdf_copy # Null /\ ~SetCrsFails => plate_gdf_copy.crs.code = 4326
        /\ SetCrsFails =>
              /\ futures = <<>>
              /\ pc # "pool"
              /\ Done =>
                    /\ Returned
                    /\ Len(returned.rows) = Len(earthquake_gdf.rows)
                    /\ \A i \in 1..Len(returned.rows) :
                          /\ returned.rows[i].label = earthquake_gdf.rows[i].label
                          /\ AllNull(returned.rows[i])

\* plates without a CRS, a zone task done on the copy under EPSG:4326 and a
\* row resolved
C23_Witness ==
    /\ NoPlateCrs
    /\ Merged
    /\ plate_gdf_copy.crs = DEFAULT_CRS
    /\ \E i \in 1..Len(returned.rows) : notna(returned.rows[i].distance_to_plate)

\* set_crs failed on a table with a row whose zone has plates in reach
C23_WitnessAssignmentFails ==
    /\ NoPlateCrs
    /\ SetCrsFails
    /\ Done
    /\ GroupKeys(DropNaEpsg(InitialCopy)) # <<>>
    /\ max_workers > 0

\* both calls have returned
BothReturned == \A t \in Callers : callers[t].at = "returned"

\* the two calls overlapped in time, with different log_level arguments
Overlapped ==
    /\ \E t \in Callers : callers[t].met
    /\ callers[1].log_level # callers[2].log_level

\* C24: when two calls with different log_level arguments overlap in time, in
\* whatever interleaving, the level of the module logger after both have
\* returned is the level it had before the first began.
C24_NoLeakAcrossCalls ==
    BothReturned /\ Overlapped => logger.level = logger.before

\* both calls returned after overlapping and the logger is left at the level
\* one of them asked for
C24_Witness ==
    /\ BothReturned
    /\ Overlapped
    /\ logger.before = log_level_map["WARNING"]
    /\ callers[1].log_level = Str("DEBUG")
    /\ callers[2].log_level = Str("ERROR")
    /\ callers[2].original_level = Num(log_level_map["DEBUG"])
    /\ logger.level = log_level_map["DEBUG"]

\* Two calls one after the other leave the level as it was before the first
C24_NoLeakInSequence ==
    BothReturned /\ ~(\E t \in Callers : callers[t].met) => logger.level = logger.before

\* C27: a single call leaves the module logger at the level it had before the
\* call, on every path by which the call ends (failed validation, empty input,
\* set_crs failing, no zone, a rejected pool, the merge or its fallback); while
\* the pool is open the level is the requested one.
C27_LevelRestored ==
    /\ pc = "start" => logger.level = logger.before
    /\ pc = "pool" =>
          /\ logger.level = requested_level(callers[1].log_level)
          /\ callers[1].original_level = Num(logger.before)
    /\ Done =>
          /\ callers[1].at = "returned"
          /\ logger.level = logger.before

\* a call that set the level to another one than it found, ran zone tasks,
\* failed in the merge and returned
C27_Witness ==
    /\ Merged
    /\ fate.merge = "concat"
    /\ callers[1].at = "returned"
    /\ requested_level(callers[1].log_level) # logger.before
    /\ logger.level = logger.before

\* what the task returns when the extent of its points is read from
\* utm_geometry
ZoneTaskOnUtmGeometry ==
    process_zone(applied.utm_epsg, applied.eq_subset_gdf, "utm_geometry",
                 applied.plate_gdf_copy, applied.reproject_fails)

\* C25 as claimed: within a zone task the point of every distance computation
\* and the extent behind the buffered pre-filter box are both taken from
\* utm_geometry, so the task returns what the projected coordinates give,
\* whichever geometry column the table has as its active one.
C25_ZoneCoordinatesOnly ==
    ZoneTaskCalled =>
        /\ outcome.v = ZoneTaskOnUtmGeometry
        /\ \A i \in 1..Len(outcome.v) :
              notna(outcome.v[i].distance_to_plate) =>
                  \E j \in 1..Len(ValidProjectedPlates) :
                      outcome.v[i].distance_to_plate =
                          Num(Distance(outcome.v[i].utm_geometry,
                                       ValidProjectedPlates[j].geometry))

\* the active column holds longitude and latitude: the box is built around
\* (-123, 5) in degrees, the plate 777 km north (northing 1332000) falls
\* outside it and the site gets the plate 1443 km south
C25_Witness ==
    /\ ZoneTaskCalled
    /\ applied.active = "geometry"
    /\ applied.plate_gdf_copy = ZonePlatesAcross
    /\ total_bounds(applied.eq_subset_gdf, applied.active).b = <<-123, 5, -123, 5>>
    /\ \E i \in 1..Len(outcome.v) :
          /\ outcome.v[i].geometry = Pt(-123, 5)
          /\ outcome.v[i].nearest_plate_strnum = Str("s2")
          /\ outcome.v[i].distance_to_plate = Num(1443000)
          /\ ZoneTaskOnUtmGeometry[i].nearest_plate_strnum = Str("s1")
          /\ ZoneTaskOnUtmGeometry[i].distance_to_plate = Num(777000)

\* With utm_geometry as the active column the extent is that of the projected
\* points, and every distance is measured from utm_geometry whatever the
\* active column
C25_ProjectedWhenActive ==
    ZoneTaskCalled =>
        /\ applied.active = "utm_geometry" => outcome.v = ZoneTaskOnUtmGeometry
        /\ \A i \in 1..Len(outcome.v) :
              notna(outcome.v[i].distance_to_plate) =>
                  \E j \in 1..Len(ValidProjectedPlates) :
                      outcome.v[i].distance_to_plate =
                          Num(Distance(outcome.v[i].utm_geometry,
                                       ValidProjectedPlates[j].geometry))

\* the plates the task hands to the resolver (lines 178-224)
TaskCandidates ==
    ZoneCandidates(ParseEpsg(applied.utm_epsg).v, applied.eq_subset_gdf, applied.active,
                   applied.plate_gdf_copy, applied.reproject_fails)

\* what the resolver gives for row i of the task taken by itself
ResolvedAlone(i) ==
    find_nearest_plate_info(applied.eq_subset_gdf[i].utm_geometry, TaskCandidates)

\* row i of the task has a geometry the resolver finds a plate for
Resolvable(i) ==
    /\ TaskCandidates # <<>>
    /\ ~Raises(ResolvedAlone(i))
    /\ notna(ResolvedAlone(i).distance_to_plate)

\* C26 as claimed: a point of a zone that cannot be processed leaves only
\* itself unresolved; every other point of the zone that the resolver finds a
\* plate for has that result in what the zone task returns.
C26_FailureStaysWithPoint ==
    ZoneTaskCalled =>
        \A i \in 1..Len(applied.eq_subset_gdf) :
            Resolvable(i) => Cells(outcome.v[i]) = Cells(ResolvedAlone(i))

\* a zone of two points, one with a float NaN for its geometry: the other,
\* 111 km from a plate, is returned unresolved
C26_Witness ==
    /\ ZoneTaskCalled
    /\ applied.plate_gdf_copy = ZonePlatesNear
    /\ Len(applied.eq_subset_gdf) = 2
    /\ applied.eq_subset_gdf[1].utm_geometry = ProjectGeom(Pt(-123, 5), 4326, 32610)
    /\ applied.eq_subset_gdf[2].utm_geometry = NaN
    /\ Resolvable(1)
    /\ ResolvedAlone(1).distance_to_plate = Num(111000)
    /\ AllNull(outcome.v[1])

\* With None or an invalid geometry as the failing point (no float NaN) the
\* other points of the zone keep their results
C26_NoneAndInvalidStayWithPoint ==
    ZoneTaskCalled /\ (\A i \in 1..Len(applied.eq_subset_gdf) :
                           applied.eq_subset_gdf[i].utm_geometry # NaN) =>
        \A i \in 1..Len(applied.eq_subset_gdf) :
            Resolvable(i) => Cells(outcome.v[i]) = Cells(ResolvedAlone(i))

\* a zone with a None geometry next to a resolved point
C26_WitnessNone ==
    /\ ZoneTaskCalled
    /\ Len(applied.eq_subset_gdf) = 2
    /\ applied.eq_subset_gdf[2].utm_geometry = Null
    /\ Resolvable(1)
    /\ Cells(outcome.v[1]) = Cells(ResolvedAlone(1))
    /\ AllNull(outcome.v[2])

\* Line 153: current_epsg_str = f"EPSG:{current_epsg_int}", Null when the zone
\* is skipped before it
current_epsg_str(utm_epsg) ==
    IF ParseEpsg(utm_epsg) = Null THEN Null ELSE EStr("EPSG:", ParseEpsg(utm_epsg).v)

\* the zone code of the task is an int, a float, or digits with or without
\* 'EPSG:' / 'epsg:' before them
AcceptedCode ==
    \E n \in {applied.utm_epsg.n} : applied.utm_epsg \in Representations(n)

\* C28: a zone task given the integer n, float(n), 'n', 'EPSG:n' or 'epsg:n'
\* works in the CRS 'EPSG:n' and returns what it returns for the integer n; given
\* no code, a string that is no number, or a value of another type it returns
\* its subset as it came, and raises nothing.
C28_OneCrsPerCode ==
    ZoneTaskReturned =>
        /\ ~Raises(outcome)
        /\ IF isna(applied.utm_epsg) \/ applied.utm_epsg.k = "other"
              \/ (applied.utm_epsg.k = "text" /\ ~applied.utm_epsg.numeric)
           THEN /\ current_epsg_str(applied.utm_epsg) = Null
                /\ outcome.v = applied.eq_subset_gdf
           ELSE AcceptedCode =>
                /\ current_epsg_str(applied.utm_epsg) = EStr("EPSG:", applied.utm_epsg.n)
                /\ outcome.v = process_zone(EInt(applied.utm_epsg.n), applied.eq_subset_gdf,
                                            applied.active, applied.plate_gdf_copy,
                                            applied.reproject_fails)

\* the code written 'epsg:32610', and the task resolved a point
C28_Witness ==
    /\ ZoneTaskReturned
    /\ applied.utm_epsg = EStr("epsg:", 32610)
    /\ current_epsg_str(applied.utm_epsg) = EStr("EPSG:", 32610)
    /\ \E i \in 1..Len(outcome.v) : outcome.v[i].distance_to_plate = Num(111000)

\* a value of another type as the code: the subset comes back as it was
C28_WitnessUnsupported ==
    /\ ZoneTaskReturned
    /\ applied.utm_epsg = EOther
    /\ outcome.v = applied.eq_subset_gdf
    /\ \E i \in 1..Len(outcome.v) : is_valid(outcome.v[i].utm_geometry)

-----------------------------------------------------------------------------
\* Vocabulary of the properties of fetch_seismic_data

\* the coordinates part of the file names of the call under way
CurrentCoordStr(request_tuple) ==
    coord_str(seismic.station_inventory, request_tuple[1], request_tuple[2])

\* the request tuple names both a location and a channel
BothCodes(request_tuple) == request_tuple[3] # "" /\ request_tuple[4] # ""

\* C29: a call of fetch_seismic_data with force_download=False submits no
\* download task for a station-month that an earlier call over the same range
\* and stations downloaded and saved, and the path it checks for a task is the
\* path the task writes, whatever the request tuple, an empty location or
\* channel code included.
C29_CachedByFile ==
    /\ ~seismic.force_download => seismic.resubmitted = {}
    /\ \A task \in seismic.tasks_to_run :
           ExpectedFilepath(task.request_tuple, task.target_year, task.target_month,
                            seismic.station_inventory)
             = WrittenFilepath(task.request_tuple, task.target_year, task.target_month,
                               seismic.station_inventory)

\* ('IC', 'RES', '', 'BHZ') was saved by an earlier call and is submitted again
\* without force_download, the inventory being the same in both calls
C29_Witness ==
    /\ ~seismic.force_download
    /\ seismic.at = "pool"
    /\ \E s \in seismic.resubmitted :
          /\ s.task.request_tuple = <<"IC", "RES", "", "BHZ">>
          /\ s.coord_str = CurrentCoordStr(s.task.request_tuple)
          /\ WrittenFilepath(s.task.request_tuple, s.task.target_year, s.task.target_month,
                             seismic.station_inventory) \in data_dir

\* For the request tuples with both codes the cache works: without
\* force_download a saved station-month is submitted again only when the
\* inventory, and with it the coordinates in the file name, differs
C29_CachedWithBothCodes ==
    /\ ~seismic.force_download =>
           \A s \in seismic.resubmitted :
               BothCodes(s.task.request_tuple) =>
                   s.coord_str # CurrentCoordStr(s.task.request_tuple)
    /\ \A task \in seismic.tasks_to_run :
           BothCodes(task.request_tuple) =>
               ExpectedFilepath(task.request_tuple, task.target_year, task.target_month,
                                seismic.station_inventory)
                 = WrittenFilepath(task.request_tuple, task.target_year, task.target_month,
                                   seismic.station_inventory)

\* a later call without force_download that leaves out the saved station-month
\* of ('IU', 'ANMO', '00', 'BHZ') and returns at once
C29_WitnessCached ==
    /\ seismic.n >= 2
    /\ ~seismic.force_download
    /\ seismic.station_requests = {<<"IU", "ANMO", "00", "BHZ">>}
    /\ seismic.tasks_to_run = {}
    /\ \E s \in seismic.saved : s.coord_str = CurrentCoordStr(s.task.request_tuple)

-----------------------------------------------------------------------------
\* Vocabulary of the properties of fetch_and_load_earthquake_data

\* the file of the day exists under DATA_DIR
DayFileExists(current_date) == Exists(DATA_DIR, DayFilePath(current_date))

\* the call under way, or the last one, covers the day
Covered(current_date) == current_date \in quakes.start_dt..quakes.end_dt

\* the day's last download saved its file
EndedSaved(entry) == entry.status \in {"success", "no_features"}

\* the day's last download raised before line 61 or 66 had opened the file
FailedBeforeOpen(entry) == entry.response \in {"request_fails", "open_fails"}

\* C30: fetch_and_load_earthquake_data downloads a day only if its file does
\* not exist or force_download is True; as long as every call had
\* force_download=False, a day whose download ended in success or no_features
\* is never requested again, and a day whose download ended with an error
\* status has no file and is requested again by the next call covering it.
C30_DownloadOnlyIfMissing ==
    /\ \A d \in quakes.pending : quakes.force_download \/ ~DayFileExists(d)
    /\ ~quakes.forced =>
           \A d \in Days :
               /\ EndedSaved(quakes.earlier[d]) => d \notin quakes.dates_to_download
               /\ IsError(quakes.status[d].status) => ~DayFileExists(d)
               /\ IsError(quakes.earlier[d].status) /\ Covered(d) =>
                      d \in quakes.dates_to_download

\* a day whose download returned an error status after json.dump had raised:
\* its file exists, and the next call covering it did not request it
C30_Witness ==
    /\ ~quakes.forced
    /\ \E d \in Days :
          /\ quakes.earlier[d].response = "dump_fails"
          /\ IsError(quakes.earlier[d].status)
          /\ DayFileExists(d)
          /\ Covered(d)
          /\ d \notin quakes.dates_to_download

\* What holds: a day is downloaded only if its file is missing or
\* force_download is True; without force_download a day that ended in success
\* or no_features is never requested again, and a day whose download failed
\* before its file was opened has no file and is requested by the next call
\* covering it
C30_SavedDaysKept ==
    /\ \A d \in quakes.pending : quakes.force_download \/ ~DayFileExists(d)
    /\ ~quakes.forced =>
           \A d \in Days :
               /\ EndedSaved(quakes.earlier[d]) => d \notin quakes.dates_to_download
               /\ FailedBeforeOpen(quakes.status[d]) => ~DayFileExists(d)
               /\ FailedBeforeOpen(quakes.earlier[d]) /\ Covered(d) =>
                      d \in quakes.dates_to_download

\* a later call over two days, one saved before and left out, one that failed
\* at the request before and is requested again
C30_WitnessRetry ==
    /\ ~quakes.forced
    /\ quakes.at = "pool"
    /\ \E d \in Days : \E e \in Days :
          /\ Covered(d) /\ Covered(e)
          /\ quakes.earlier[d].status = "success"
          /\ d \notin quakes.dates_to_download
          /\ quakes.earlier[e].response = "request_fails"
          /\ e \in quakes.dates_to_download
====
